---- MODULE Spec2Model ----
(***************************************************************************)
(* Verification model of the dlfx effect-estimation engine                 *)
(* (src/src/dlfx/effects.py, src/src/dlfx/meta.py).                        *)
(*                                                                         *)
(* Every estimator is a pure function of an in-memory table.  A call is    *)
(* modelled as a small state machine: fn names the function being run,     *)
(* args holds its arguments, loc its local variables, pc its position and  *)
(* ret the value it returned or the exception it raised.                   *)
(*                                                                         *)
(* Floating-point values are modelled as exact rationals extended with    *)
(* NaN, +inf and -inf.  NumPy array division follows IEEE-754 (x/0 is     *)
(* inf or NaN); division of two Python floats raises ZeroDivisionError.   *)
(***************************************************************************)
EXTENDS Integers, Sequences, FiniteSets, TLC

VARIABLES fn, args, loc, pc, ret

vars == <<fn, args, loc, pc, ret>>

NoValue == [k |-> "none"]

(***************************************************************************)
(* Extended rationals: the model of Python / NumPy float64 values.         *)
(***************************************************************************)
Abs(x) == IF x < 0 THEN -x ELSE x

RECURSIVE GCD(_, _)
GCD(a, b) == IF b = 0 THEN a ELSE GCD(b, a % b)

Rat(n, d) ==
    LET g == GCD(Abs(n), Abs(d))
        s == IF d < 0 THEN -1 ELSE 1
    IN  [k |-> "num", n |-> s * (n \div g), d |-> s * (d \div g)]

Num(i) == [k |-> "num", n |-> i, d |-> 1]
NaN == [k |-> "nan", n |-> 0, d |-> 1]
PosInf == [k |-> "inf", n |-> 1, d |-> 1]
NegInf == [k |-> "inf", n |-> -1, d |-> 1]

IsNum(x) == x.k = "num"
IsNaN(x) == x.k = "nan"
IsInf(x) == x.k = "inf"
IsFinite(x) == x.k = "num"

\* sign of a float value: -1, 0, 1 (NaN has no sign; 0 is returned and never used)
Sgn(x) == IF x.n > 0 THEN 1 ELSE IF x.n < 0 THEN -1 ELSE 0

SignedInf(s) == IF s > 0 THEN PosInf ELSE NegInf

FNeg(x) == IF IsNum(x) THEN Rat(-x.n, x.d) ELSE IF IsInf(x) THEN SignedInf(-x.n) ELSE NaN

FAdd(x, y) ==
    IF IsNaN(x) \/ IsNaN(y) THEN NaN
    ELSE IF IsInf(x) /\ IsInf(y) THEN (IF x.n = y.n THEN x ELSE NaN)
    ELSE IF IsInf(x) THEN x
    ELSE IF IsInf(y) THEN y
    ELSE LET g == GCD(x.d, y.d)
         IN  Rat(x.n * (y.d \div g) + y.n * (x.d \div g), (x.d \div g) * y.d)

FSub(x, y) == FAdd(x, FNeg(y))

FMul(x, y) ==
    IF IsNaN(x) \/ IsNaN(y) THEN NaN
    ELSE IF IsInf(x) \/ IsInf(y)
         THEN (IF Sgn(x) * Sgn(y) = 0 THEN NaN ELSE SignedInf(Sgn(x) * Sgn(y)))
    ELSE LET g1 == GCD(Abs(x.n), Abs(y.d))
             g2 == GCD(Abs(y.n), Abs(x.d))
         IN  Rat((x.n \div g1) * (y.n \div g2), (x.d \div g2) * (y.d \div g1))

\* IEEE-754 division, as performed by NumPy on float64 scalars and arrays:
\* a zero divisor yields inf or NaN (with a RuntimeWarning), never an exception.
\* The zero divisors of the model are sums of non-negative terms, hence +0.0.
NpDiv(x, y) ==
    IF IsNaN(x) \/ IsNaN(y) THEN NaN
    ELSE IF IsInf(x) /\ IsInf(y) THEN NaN
    ELSE IF IsInf(x) THEN SignedInf(Sgn(x) * (IF Sgn(y) < 0 THEN -1 ELSE 1))
    ELSE IF IsInf(y) THEN Num(0)
    ELSE IF y.n = 0 THEN (IF x.n = 0 THEN NaN ELSE SignedInf(Sgn(x)))
    ELSE FMul(x, Rat(y.d, y.n))

\* Division of two Python floats: ZeroDivisionError on a zero divisor.
PyDivRaises(x, y) == IsNum(y) /\ y.n = 0
PyDiv(x, y) == NpDiv(x, y)

\* comparisons; every comparison with NaN is False
FLt(x, y) ==
    IF IsNaN(x) \/ IsNaN(y) THEN FALSE
    ELSE IF IsInf(x) THEN (x.n < 0 /\ ~(IsInf(y) /\ y.n < 0))
    ELSE IF IsInf(y) THEN y.n > 0
    ELSE x.n * y.d < y.n * x.d
FGt(x, y) == FLt(y, x)
FEq(x, y) == ~IsNaN(x) /\ ~IsNaN(y) /\ x = y
FLe(x, y) == FLt(x, y) \/ FEq(x, y)
FGe(x, y) == FLe(y, x)

\* Python's builtin max(a, b): b if b > a else a
PyMax(a, b) == IF FGt(b, a) THEN b ELSE a

RECURSIVE SumSeq(_)
SumSeq(s) == IF s = <<>> THEN Num(0) ELSE FAdd(Head(s), SumSeq(Tail(s)))

\* np.sum over a sequence of float values
NpSum(s) == SumSeq(s)

\* The input tables of the model.  The estimators sum over rows, so a table
\* is drawn once per multiset of rows: SetToSeq fixes an enumeration of the
\* row kinds and a table lists its rows in non-decreasing enumeration order.
RECURSIVE SetToSeq(_)
SetToSeq(S) ==
    IF S = {} THEN <<>>
    ELSE LET x == CHOOSE y \in S : TRUE
         IN  <<x>> \o SetToSeq(S \ {x})

RECURSIVE NonDecreasing(_, _)
NonDecreasing(k, n) ==
    IF n = 0 THEN {<<>>}
    ELSE LET shorter == NonDecreasing(k, n - 1)
         IN  shorter \cup
             UNION {{Append(q, x) : x \in (IF q = <<>> THEN 1 ELSE q[Len(q)])..k} :
                        q \in {r \in shorter : Len(r) = n - 1}}

TablesUpTo(S, n) ==
    LET e == SetToSeq(S)
    IN  {[i \in 1..Len(q) |-> e[q[i]]] :
            q \in NonDecreasing(Len(e), n)}

(***************************************************************************)
(* Bounds of the model.                                                    *)
(***************************************************************************)
MaxRows == 3
MaxWeight == 2

Weights == 0..MaxWeight

(***************************************************************************)
(* effects.py: _kish_effective_n, _risk_ci_normal, weighted_binary_risks   *)
(***************************************************************************)
\* one subject row of the binary-outcome table: treatment indicator t
\* (already an int), event e and weight w
BinRows == [t : {0, 1}, e : {0, 1}, w : Weights]

col_w(df) == [i \in 1..Len(df) |-> Num(df[i].w)]
col_we(df) == [i \in 1..Len(df) |-> Num(df[i].w * df[i].e)]
col_w2(df) == [i \in 1..Len(df) |-> Num(df[i].w * df[i].w)]

IsTreated(row) == row.t = 1
IsControl(row) == row.t = 0

\* df[mask1] and df[mask0]
Arm(df, a) == IF a = 1 THEN SelectSeq(df, IsTreated) ELSE SelectSeq(df, IsControl)

_kish_effective_n_unsquared(rows) ==
    LET s1 == NpSum(col_w(rows))
        s2 == NpSum(col_w2(rows))
    IN  IF FEq(s2, Num(0)) THEN Num(0) ELSE PyDiv(s1, s2)

\* lines 20-26
_kish_effective_n(rows) ==
    LET s1 == NpSum(col_w(rows))
        s2 == NpSum(col_w2(rows))
    IN  IF FEq(s2, Num(0)) THEN Num(0) ELSE PyDiv(FMul(s1, s1), s2)

\* The floor of max(x, 1e-12).  1e-12 has no 32-bit denominator; the model
\* carries the floor as 1e-6: every positive value the model compares with
\* it is a rational with a small denominator, above both.
FLOOR == Rat(1, 1000000)
MaxFloor(x) == PyMax(x, FLOOR)

\* _risk_ci_normal returns a square root; the model keeps only whether the
\* standard error is a positive number ("pos") or NaN ("nan"), and whether the
\* Python-level division by n_eff raised.
_risk_ci_normal(p, n_eff) ==
    IF FLe(n_eff, Num(0))
    THEN [raised |-> FALSE, se |-> "nan"]
    ELSE [raised |-> PyDivRaises(MaxFloor(FMul(p, FSub(Num(1), p))), n_eff),
          se |-> IF IsNaN(MaxFloor(FMul(p, FSub(Num(1), p)))) \/ IsNaN(n_eff)
                 THEN "nan" ELSE "pos"]

\* lines 49-50: per-arm risk, a NumPy division
ArmRisk(df, a) == NpDiv(NpSum(col_we(Arm(df, a))), NpSum(col_w(Arm(df, a))))

RiskRatioNaN(r1, r0) == IF FGt(r0, Num(0)) THEN PyDiv(r1, r0) ELSE NaN

\* line 53: rr = float(r1 / r0) if r0 > 0 else float("inf")
RiskRatio(r1, r0) == IF FGt(r0, Num(0)) THEN PyDiv(r1, r0) ELSE PosInf

InitRisk ==
    /\ fn = "weighted_binary_risks"
    /\ args \in {[df |-> d] : d \in TablesUpTo(BinRows, MaxRows)}
    /\ loc = NoValue
    /\ pc = "start"
    /\ ret = NoValue

\* lines 42-53: the point estimates
BinaryRisksPoint ==
    /\ fn = "weighted_binary_risks" /\ pc = "start"
    /\ LET r1 == ArmRisk(args.df, 1)
           r0 == ArmRisk(args.df, 0)
       IN  loc' = [r1 |-> r1, r0 |-> r0, rd |-> FSub(r1, r0), rr |-> RiskRatio(r1, r0)]
    /\ pc' = "ci"
    /\ UNCHANGED <<fn, args, ret>>

\* lines 55-76: Kish effective n, standard errors, intervals and the result
BinaryRisksCI ==
    /\ fn = "weighted_binary_risks" /\ pc = "ci"
    /\ LET n1 == _kish_effective_n(Arm(args.df, 1))
           n0 == _kish_effective_n(Arm(args.df, 0))
           se1 == _risk_ci_normal(loc.r1, n1)
           se0 == _risk_ci_normal(loc.r0, n0)
           raised == \/ se1.raised \/ se0.raised
                     \/ PyDivRaises(Num(1), MaxFloor(loc.r1))
                     \/ PyDivRaises(Num(1), MaxFloor(loc.r0))
           se_rd == IF se1.se = "nan" \/ se0.se = "nan" THEN "nan" ELSE "pos"
       IN  ret' = IF raised
                  THEN [kind |-> "raise", exc |-> "ZeroDivisionError"]
                  ELSE [kind |-> "RiskEstimate",
                        risk_treated |-> loc.r1, risk_control |-> loc.r0,
                        rd |-> loc.rd, rr |-> loc.rr,
                        n1 |-> n1, n0 |-> n0, se_rd |-> se_rd]
    /\ pc' = "done"
    /\ UNCHANGED <<fn, args, loc>>

NextRisk == BinaryRisksPoint \/ BinaryRisksCI

SpecRisk == InitRisk /\ [][NextRisk]_vars

\* helpers of the statements about weighted_binary_risks
ArmWeight(df, a) == NpSum(col_w(Arm(df, a)))
ArmEvents(df, a) == NpSum(col_we(Arm(df, a)))
RiskDone == fn = "weighted_binary_risks" /\ pc = "done"

\* C8: when the control arm has positive total weight and no weighted event
\* (control risk 0) and the treated arm has a defined risk, weighted_binary_risks
\* returns RR = +inf and a finite RD equal to the treated risk, and does not raise.
C8_ControlZeroEvents ==
    (RiskDone /\ FGt(ArmWeight(args.df, 0), Num(0)) /\ FEq(ArmEvents(args.df, 0), Num(0))
              /\ FGt(ArmWeight(args.df, 1), Num(0)))
        => /\ ret.kind = "RiskEstimate"
           /\ ret.rr = PosInf
           /\ IsFinite(ret.rd)
           /\ ret.rd = ret.risk_treated

C8_Witness ==
    /\ RiskDone
    /\ FGt(ArmWeight(args.df, 0), Num(0)) /\ FEq(ArmEvents(args.df, 0), Num(0))
    /\ FGt(ArmEvents(args.df, 1), Num(0))
    /\ ret.kind = "RiskEstimate" /\ ret.rr = PosInf /\ FGt(ret.rd, Num(0))

\* C9: when either arm has zero total weight, that arm's risk is NaN and both
\* RD and RR are NaN, and nothing is raised.
C9_ZeroWeightArm ==
    (RiskDone /\ (FEq(ArmWeight(args.df, 1), Num(0)) \/ FEq(ArmWeight(args.df, 0), Num(0))))
        => /\ ret.kind = "RiskEstimate"
           /\ (FEq(ArmWeight(args.df, 1), Num(0)) => IsNaN(ret.risk_treated))
           /\ (FEq(ArmWeight(args.df, 0), Num(0)) => IsNaN(ret.risk_control))
           /\ IsNaN(ret.rd)
           /\ IsNaN(ret.rr)

(***************************************************************************)
(* effects.py: weighted_km_risk_at                                         *)
(***************************************************************************)
MaxRowsKM == 3
MaxTime == 2

\* the marker of a missing (NaN) cell
NA == -1

Times == 1..MaxTime
Horizons == 1..MaxTime

\* one row of the survival table: duration, event indicator and weight; one
\* kind of row has a missing event cell
KMRows == [time : Times, event : {0, 1}, w : Weights]
              \cup {[time |-> 1, event |-> NA, w |-> 1]}

\* dropna(): a row survives when none of its cells is missing
NotMissing(row) == row.event # NA

\* the distinct values of a column, ascending (groupby + sort_values)
RECURSIVE SortedSeq(_)
SortedSeq(S) ==
    IF S = {} THEN <<>>
    ELSE LET m == CHOOSE x \in S : \A y \in S : x <= y
         IN  <<m>> \o SortedSeq(S \ {m})

RECURSIVE SumInts(_)
SumInts(q) == IF q = <<>> THEN 0 ELSE Head(q) + SumInts(Tail(q))

KMGroupedTiesCollapsed(work) ==
    LET ts == SortedSeq({work[i].time : i \in 1..Len(work)})
    IN  [j \in 1..Len(ts) |->
            [time |-> ts[j],
             w_total |-> SumInts([i \in 1..Len(work) |->
                             IF work[i].time = ts[j] THEN work[i].w ELSE 0]),
             w_event |-> IF \E i \in 1..Len(work) : work[i].time = ts[j] /\ work[i].event = 1
                         THEN 1 ELSE 0]]

\* lines 209-218: per distinct time, total weight and event weight
KMGrouped(work) ==
    LET ts == SortedSeq({work[i].time : i \in 1..Len(work)})
    IN  [j \in 1..Len(ts) |->
            [time |-> ts[j],
             w_total |-> SumInts([i \in 1..Len(work) |->
                             IF work[i].time = ts[j] THEN work[i].w ELSE 0]),
             w_event |-> SumInts([i \in 1..Len(work) |->
                             IF work[i].time = ts[j] /\ work[i].event = 1
                             THEN work[i].w ELSE 0])]]

KMUpdateAssign(st, row) ==
    [s |-> IF FGt(st.risk, Num(0)) /\ row.w_event > 0
           THEN PyMax(Num(0), FSub(Num(1), PyDiv(Num(row.w_event), st.risk)))
           ELSE st.s,
     risk |-> FSub(st.risk, Num(row.w_total))]

KMUpdateUnguarded(st, row) ==
    [s |-> IF row.w_event > 0
           THEN FMul(st.s, PyMax(Num(0), FSub(Num(1), PyDiv(Num(row.w_event), st.risk))))
           ELSE st.s,
     risk |-> FSub(st.risk, Num(row.w_total))]

\* lines 226-229: the survival update and the risk-set update of one pass
KMUpdate(st, row) ==
    [s |-> IF FGt(st.risk, Num(0)) /\ row.w_event > 0
           THEN FMul(st.s, PyMax(Num(0), FSub(Num(1), PyDiv(Num(row.w_event), st.risk))))
           ELSE st.s,
     risk |-> FSub(st.risk, Num(row.w_total))]

\* lines 220-231 as a function of the grouped table and the horizon
RECURSIVE KMLoop(_, _, _, _)
KMLoop(grouped, i, st, horizon) ==
    IF i > Len(grouped) \/ grouped[i].time > horizon THEN st
    ELSE KMLoop(grouped, i + 1, KMUpdate(st, grouped[i]), horizon)

TotalW(work) == SumInts([i \in 1..Len(work) |-> work[i].w])

\* the value returned by weighted_km_risk_at(df, horizon_days)
KMRiskAt(df, horizon) ==
    LET work == SelectSeq(df, NotMissing)
    IN  IF work = <<>> \/ TotalW(work) <= 0 THEN NaN
        ELSE FSub(Num(1), KMLoop(KMGrouped(work), 1, [s |-> Num(1), risk |-> Num(TotalW(work))], horizon).s)

InitKM ==
    /\ fn = "weighted_km_risk_at"
    /\ args \in {[df |-> d, horizon_days |-> h] : d \in TablesUpTo(KMRows, MaxRowsKM), h \in Horizons}
    /\ loc = NoValue
    /\ pc = "start"
    /\ ret = NoValue

\* lines 196-198: dropna leaves nothing
KMEmpty ==
    /\ fn = "weighted_km_risk_at" /\ pc = "start"
    /\ SelectSeq(args.df, NotMissing) = <<>>
    /\ ret' = NaN
    /\ pc' = "done"
    /\ UNCHANGED <<fn, args, loc>>

\* lines 204-207: no positive total weight
KMNoWeight ==
    /\ fn = "weighted_km_risk_at" /\ pc = "start"
    /\ SelectSeq(args.df, NotMissing) # <<>>
    /\ TotalW(SelectSeq(args.df, NotMissing)) <= 0
    /\ ret' = NaN
    /\ pc' = "done"
    /\ UNCHANGED <<fn, args, loc>>

\* lines 196-221: dropna, sort, group, s = 1.0, risk = total_w
KMPrepare ==
    /\ fn = "weighted_km_risk_at" /\ pc = "start"
    /\ LET work == SelectSeq(args.df, NotMissing)
       IN  /\ work # <<>>
           /\ TotalW(work) > 0
           /\ loc' = [grouped |-> KMGrouped(work), i |-> 1,
                      s |-> Num(1), risk |-> Num(TotalW(work))]
    /\ pc' = "loop"
    /\ UNCHANGED <<fn, args, ret>>

\* lines 222-229: one iteration for a distinct time <= horizon
KMLoopStep ==
    /\ fn = "weighted_km_risk_at" /\ pc = "loop"
    /\ loc.i <= Len(loc.grouped)
    /\ ~(loc.grouped[loc.i].time > args.horizon_days)
    /\ LET st == KMUpdate([s |-> loc.s, risk |-> loc.risk], loc.grouped[loc.i])
       IN  loc' = [loc EXCEPT !.s = st.s, !.risk = st.risk, !.i = loc.i + 1]
    /\ UNCHANGED <<fn, args, pc, ret>>

\* lines 224-225: the first time beyond the horizon ends the loop
KMLoopBreak ==
    /\ fn = "weighted_km_risk_at" /\ pc = "loop"
    /\ loc.i <= Len(loc.grouped)
    /\ loc.grouped[loc.i].time > args.horizon_days
    /\ pc' = "return"
    /\ UNCHANGED <<fn, args, loc, ret>>

\* line 222: the grouped rows are exhausted
KMLoopEnd ==
    /\ fn = "weighted_km_risk_at" /\ pc = "loop"
    /\ loc.i > Len(loc.grouped)
    /\ pc' = "return"
    /\ UNCHANGED <<fn, args, loc, ret>>

\* line 231
KMReturn ==
    /\ fn = "weighted_km_risk_at" /\ pc = "return"
    /\ ret' = FSub(Num(1), loc.s)
    /\ pc' = "done"
    /\ UNCHANGED <<fn, args, loc>>

NextKM == KMEmpty \/ KMNoWeight \/ KMPrepare \/ KMLoopStep \/ KMLoopBreak \/ KMLoopEnd \/ KMReturn

SpecKM == InitKM /\ [][NextKM]_vars

KMRunning == fn = "weighted_km_risk_at" /\ pc \in {"loop", "return"}
KMDone == fn = "weighted_km_risk_at" /\ pc = "done"

\* the survival value is within [0,1], and is 1 before the first time is processed
KMSurvivalBounded ==
    /\ KMRunning => /\ FLe(Num(0), loc.s) /\ FLe(loc.s, Num(1))
                    /\ (loc.i = 1 => loc.s = Num(1))
    /\ (KMDone /\ ~IsNaN(ret)) =>
           /\ FLe(Num(0), ret) /\ FLe(ret, Num(1))
           /\ ret = KMRiskAt(args.df, args.horizon_days)
           /\ \A h \in Horizons :
                  h <= args.horizon_days => FLe(KMRiskAt(args.df, h), ret)

\* the survival value never increases from one processed time to the next
KMSurvivalStep == (KMRunning /\ pc' \in {"loop", "return"}) => FLe(loc'.s, loc.s)

\* C10: for a non-empty input of positive total weight (weights are
\* non-negative), the survival value of weighted_km_risk_at is 1 before the
\* first time, never increases and stays within [0,1]; the returned risk is
\* within [0,1] and non-decreasing in the horizon.
C10_KMSurvivalMonotone == [](KMSurvivalBounded) /\ [][KMSurvivalStep]_vars

C10_Witness ==
    /\ KMDone /\ ~IsNaN(ret)
    /\ FLt(Num(0), ret) /\ FLt(ret, Num(1))
    /\ loc.i > 2
    /\ \E h \in Horizons : h < args.horizon_days /\ FLt(KMRiskAt(args.df, h), ret)
                           /\ FLt(Num(0), KMRiskAt(args.df, h))

\* the rows of the call's table that survive dropna
KMKept == SelectSeq(args.df, NotMissing)

\* all weights are 1 and no subject is censored before the horizon
UnitWeightsNoEarlyCensoring ==
    /\ KMKept # <<>>
    /\ \A i \in 1..Len(KMKept) :
           /\ KMKept[i].w = 1
           /\ KMKept[i].event = 0 => KMKept[i].time >= args.horizon_days

\* the number of subjects with an event at a time <= horizon
EventsByHorizon ==
    Cardinality({i \in 1..Len(KMKept) :
        KMKept[i].event = 1 /\ KMKept[i].time <= args.horizon_days})

\* C11: with all weights equal to 1 and no subject censored before the
\* horizon, weighted_km_risk_at returns (number of subjects with an event at a
\* time <= horizon) / (number of subjects), also when subjects share an event
\* time.
C11_KMUnweightedEmpirical ==
    (KMDone /\ UnitWeightsNoEarlyCensoring) => ret = Rat(EventsByHorizon, Len(KMKept))

\* three subjects, two of them with an event at one shared time
C11_Witness ==
    /\ KMDone /\ UnitWeightsNoEarlyCensoring
    /\ Len(KMKept) = 3 /\ EventsByHorizon = 2
    /\ \E i, k \in 1..Len(KMKept) :
           /\ i # k /\ KMKept[i].event = 1 /\ KMKept[k].event = 1
           /\ KMKept[i].time = KMKept[k].time /\ KMKept[i].time <= args.horizon_days
    /\ ret = Rat(2, 3)

\* tables that also hold subjects of weight -1, for which the at-risk weight
\* can reach zero before the last event
KMSignedRows == KMRows \cup [time : Times, event : {0, 1}, w : {-1}]

InitKMSigned ==
    /\ fn = "weighted_km_risk_at"
    /\ args \in {[df |-> d, horizon_days |-> h] :
                    d \in TablesUpTo(KMSignedRows, MaxRowsKM), h \in Horizons}
    /\ loc = NoValue
    /\ pc = "start"
    /\ ret = NoValue

SpecKMSigned == InitKMSigned /\ [][NextKM]_vars

\* the total weight of the subjects still at risk at time t
AtRiskWeight(t) ==
    SumInts([i \in 1..Len(KMKept) |-> IF KMKept[i].time >= t THEN KMKept[i].w ELSE 0])

\* the passes made so far are those of the distinct times <= horizon, in
\* ascending order, and risk is the weight still at risk; at the return
\* every distinct time <= horizon has had its pass
KMPasses ==
    /\ KMRunning =>
           /\ \A j \in 1..Len(loc.grouped) :
                  j < loc.i => loc.grouped[j].time <= args.horizon_days
           /\ loc.i <= Len(loc.grouped) =>
                  loc.risk = Num(AtRiskWeight(loc.grouped[loc.i].time))
           /\ IsFinite(loc.s)
    /\ (fn = "weighted_km_risk_at" /\ pc \in {"return", "done"} /\ loc # NoValue) =>
           \A j \in 1..Len(loc.grouped) :
               loc.grouped[j].time <= args.horizon_days <=> j < loc.i

\* one pass: for a time <= horizon, with the survival multiplied by
\* 1 - d / risk when events occurred and weight is at risk, and left alone
\* when no weight is at risk
KMPassStep ==
    (fn = "weighted_km_risk_at" /\ pc = "loop" /\ loc' # loc) =>
        LET row == loc.grouped[loc.i]
        IN  /\ row.time <= args.horizon_days
            /\ loc'.i = loc.i + 1
            /\ FLe(loc.risk, Num(0)) => loc'.s = loc.s
            /\ (FGt(loc.risk, Num(0)) /\ row.w_event > 0) =>
                   /\ ~PyDivRaises(Num(row.w_event), loc.risk)
                   /\ loc'.s = FMul(loc.s, PyMax(Num(0),
                                  FSub(Num(1), Rat(row.w_event * loc.risk.d, loc.risk.n))))

\* C26: weighted_km_risk_at applies the survival update for every distinct
\* time <= horizon (a time equal to the horizon included) and for no later
\* time, and applies no update once the at-risk weight is <= 0, so an event
\* weight is never divided by a zero or negative risk set.
C26_KMUpdatesUpToHorizon == [](KMPasses) /\ [][KMPassStep]_vars

\* a pass skipped its update: events at a time <= horizon with no weight
\* left at risk
C26_Witness ==
    /\ fn = "weighted_km_risk_at" /\ pc = "done" /\ loc # NoValue
    /\ loc.i = 3
    /\ loc.grouped[2].time = args.horizon_days
    /\ loc.grouped[2].w_event > 0
    /\ AtRiskWeight(loc.grouped[2].time) = 0

(***************************************************************************)
(* effects.py: _weighted_aj_cif_at, weighted_competing_risk_cif_rr_at      *)
(***************************************************************************)
MaxRowsCR == 2
MaxTimeCR == 2
MaxWeightCR == 1

TimesCR == 1..MaxTimeCR
HorizonsCR == 1..MaxTimeCR

\* one subject row: treatment t, interest event ei at time ti (the censoring
\* time when ei = 0), competing event ec at time tc (tc may be missing), weight w;
\* one kind of row has a missing interest time
CRRows ==
    [t : {0, 1}, ei : {0, 1}, ti : TimesCR, ec : {1}, tc : TimesCR \cup {NA}, w : 0..MaxWeightCR]
    \cup [t : {0, 1}, ei : {0, 1}, ti : TimesCR, ec : {0}, tc : {NA}, w : 0..MaxWeightCR]
    \cup {[t |-> 1, ei |-> 1, ti |-> NA, ec |-> 0, tc |-> NA, w |-> 1]}

\* line 325: dropna on treatment, interest event, interest time and weight
CRNotMissing(row) == row.ti # NA

FMin(x, y) == IF FLt(y, x) THEN y ELSE x

\* lines 334-346 for one subject: the (time, status) pair
ResolveStatus(row, horizon) ==
    LET censor_time == FMin(Num(row.ti), Num(horizon))
        interest_time == IF row.ei = 1 THEN FMin(Num(row.ti), Num(horizon)) ELSE PosInf
        comp_time == IF row.ec = 1 /\ row.tc # NA /\ row.tc <= horizon
                     THEN FMin(Num(row.tc), Num(horizon)) ELSE PosInf
        m1 == FLe(interest_time, comp_time) /\ FLe(interest_time, censor_time)
        m2 == FLt(comp_time, interest_time) /\ FLe(comp_time, censor_time)
    IN  [time |-> IF m2 THEN comp_time ELSE IF m1 THEN interest_time ELSE censor_time,
         status |-> IF m2 THEN 2 ELSE IF m1 THEN 1 ELSE 0,
         w |-> row.w, t |-> row.t]

\* lines 253-275: mask, cap at the horizon, sort, aggregate per distinct time
AJMask(r) == IsFinite(r.time) /\ r.w > 0

AJGrouped(rows, horizon) ==
    LET capped == [i \in 1..Len(rows) |-> FMin(rows[i].time, Num(horizon))]
        \* the resolved times of the model are integers
        uniq == SortedSeq({capped[i].n : i \in 1..Len(rows)})
        total_w == SumInts([i \in 1..Len(rows) |-> rows[i].w])
        WAt(j, st) == SumInts([i \in 1..Len(rows) |->
                         IF capped[i].n = uniq[j] /\ (st = -1 \/ rows[i].status = st)
                         THEN rows[i].w ELSE 0])
        CumBefore(j) == SumInts([i \in 1..Len(rows) |->
                         IF capped[i].n < uniq[j] THEN rows[i].w ELSE 0])
    IN  [j \in 1..Len(uniq) |->
            [time |-> uniq[j], y |-> total_w - CumBefore(j),
             d1 |-> WAt(j, 1), d2 |-> WAt(j, 2)]]

AJUpdateInterestOnly(st, g) ==
    IF g.y <= 0 THEN st
    ELSE [cif |-> IF g.d1 > 0
                  THEN FAdd(st.cif, FMul(st.surv, PyDiv(Num(g.d1), Num(g.y))))
                  ELSE st.cif,
          surv |-> IF g.d1 > 0
                   THEN FMul(st.surv, PyMax(Num(0), FSub(Num(1), PyDiv(Num(g.d1), Num(g.y)))))
                   ELSE st.surv]

\* lines 282-290: the loop body for one distinct time
AJUpdate(st, g) ==
    IF g.y <= 0 THEN st
    ELSE [cif |-> IF g.d1 > 0
                  THEN FAdd(st.cif, FMul(st.surv, PyDiv(Num(g.d1), Num(g.y))))
                  ELSE st.cif,
          surv |-> IF g.d1 + g.d2 > 0
                   THEN FMul(st.surv, PyMax(Num(0), FSub(Num(1), PyDiv(Num(g.d1 + g.d2), Num(g.y)))))
                   ELSE st.surv]

RECURSIVE AJLoop(_, _, _, _)
AJLoop(grouped, i, st, horizon) ==
    IF i > Len(grouped) \/ grouped[i].time > horizon THEN st
    ELSE AJLoop(grouped, i + 1, AJUpdate(st, grouped[i]), horizon)

\* the value returned by _weighted_aj_cif_at
_weighted_aj_cif_at(rows, horizon) ==
    LET kept == SelectSeq(rows, AJMask)
    IN  IF kept = <<>> THEN NaN
        ELSE IF SumInts([i \in 1..Len(kept) |-> kept[i].w]) <= 0 THEN NaN
        ELSE AJLoop(AJGrouped(kept, horizon), 1, [cif |-> Num(0), surv |-> Num(1)], horizon).cif

InitCR ==
    /\ fn = "weighted_competing_risk_cif_rr_at"
    /\ args \in {[df |-> d, horizon_days |-> h, n_bootstrap |-> 0, seed |-> 0] :
                    d \in TablesUpTo(CRRows, MaxRowsCR), h \in HorizonsCR}
    /\ loc = NoValue
    /\ pc = "start"
    /\ ret = NoValue

\* lines 316-346: dropna and the status resolution of every subject
CRResolve ==
    /\ fn = "weighted_competing_risk_cif_rr_at" /\ pc = "start"
    /\ LET work == SelectSeq(args.df, CRNotMissing)
       IN  loc' = [work |-> work,
                   resolved |-> [i \in 1..Len(work) |-> ResolveStatus(work[i], args.horizon_days)]]
    /\ pc' = "cif"
    /\ UNCHANGED <<fn, args, ret>>

\* lines 348-354: per-arm CIF, RD and RR
CRPoint ==
    /\ fn = "weighted_competing_risk_cif_rr_at" /\ pc = "cif"
    /\ LET cif1 == _weighted_aj_cif_at(Arm(loc.resolved, 1), args.horizon_days)
           cif0 == _weighted_aj_cif_at(Arm(loc.resolved, 0), args.horizon_days)
       IN  loc' = [work |-> loc.work, resolved |-> loc.resolved,
                   cif1 |-> cif1, cif0 |-> cif0,
                   rd |-> FSub(cif1, cif0), rr |-> RiskRatio(cif1, cif0)]
    /\ pc' = "bootstrap"
    /\ UNCHANGED <<fn, args, ret>>

\* lines 356-358 and 381-388: without bootstrap both intervals are None
CRReturnPlain ==
    /\ fn = "weighted_competing_risk_cif_rr_at" /\ pc = "bootstrap"
    /\ ~(args.n_bootstrap > 0)
    /\ ret' = [kind |-> "RiskEstimate", risk_treated |-> loc.cif1, risk_control |-> loc.cif0,
               rd |-> loc.rd, rr |-> loc.rr, rd_ci95 |-> NoValue, rr_ci95 |-> NoValue]
    /\ pc' = "done"
    /\ UNCHANGED <<fn, args, loc>>

NextCR == CRResolve \/ CRPoint \/ CRReturnPlain

SpecCR == InitCR /\ [][NextCR]_vars

CRResolved == fn = "weighted_competing_risk_cif_rr_at" /\ pc \in {"cif", "bootstrap", "done"}
CRDone == fn = "weighted_competing_risk_cif_rr_at" /\ pc = "done"

\* the subject has an interest event strictly after the horizon and no
\* competing event at or before it
LateInterest(row, horizon) ==
    /\ row.ei = 1 /\ row.ti > horizon
    /\ ~(row.ec = 1 /\ row.tc # NA /\ row.tc <= horizon)

\* C1: every subject is resolved to a time <= horizon; status 1 requires an
\* interest event at a time <= horizon, status 2 a competing event at a time
\* <= horizon; an interest event strictly after the horizon is resolved to
\* (horizon, censored) and adds nothing to the CIF of its arm.
C1_HorizonCensoring ==
    /\ CRResolved =>
        \A i \in 1..Len(loc.work) :
            LET row == loc.work[i]
                res == loc.resolved[i]
            IN  /\ FLe(res.time, Num(args.horizon_days))
                /\ (res.status = 1 => (row.ei = 1 /\ row.ti <= args.horizon_days))
                /\ (res.status = 2 =>
                        (row.ec = 1 /\ row.tc # NA /\ row.tc <= args.horizon_days))
                /\ (LateInterest(row, args.horizon_days) =>
                        (res.status = 0 /\ res.time = Num(args.horizon_days)))
    /\ CRDone =>
        \A a \in {0, 1} :
            (\A i \in 1..Len(loc.work) :
                (loc.work[i].t = a /\ loc.work[i].ei = 1) => loc.work[i].ti > args.horizon_days)
            => (IsNaN(IF a = 1 THEN ret.risk_treated ELSE ret.risk_control)
                \/ (IF a = 1 THEN ret.risk_treated ELSE ret.risk_control) = Num(0))

\* the times at which the three things happen to a subject, Never standing
\* for a thing that does not happen: the interest event, the competing event
\* (none when its time is missing), and the end of observation, which is the
\* horizon or, for a subject without interest event, the earlier end of its
\* follow-up
Never == 2 * MaxTimeCR + 2
InterestAt(row) == IF row.ei = 1 THEN row.ti ELSE Never
CompetingAt(row) == IF row.ec = 1 /\ row.tc # NA THEN row.tc ELSE Never
CensoredAt(row, horizon) ==
    IF row.ei = 0 /\ row.ti < horizon THEN row.ti ELSE horizon

\* C28: each subject gets exactly one status in {0,1,2}, decided by the
\* earliest of interest event, competing event and censoring; an interest
\* and a competing event at the same time count as interest; a competing
\* indicator with a missing competing time is ignored.
C28_EarliestDecides ==
    CRResolved =>
        \A i \in 1..Len(loc.work) :
            LET row == loc.work[i]
                res == loc.resolved[i]
                it == InterestAt(row)
                ct == CompetingAt(row)
                cens == CensoredAt(row, args.horizon_days)
            IN  /\ res.status \in {0, 1, 2}
                /\ res.status = 1 <=> (it <= ct /\ it <= cens)
                /\ res.status = 2 <=> (ct < it /\ ct <= cens)
                /\ (row.ec = 1 /\ row.tc = NA) => res.status # 2

(***************************************************************************)
(* meta.py: _log_se_from_ci, random_effects_meta_ratio                     *)
(*                                                                         *)
(* A positive ratio is written Pow(k), the k-th power of a fixed base      *)
(* B > 1 (B = 1.2 gives the ratios 1.0, 1.2, 1.44).  np.log maps Pow(k) to *)
(* k units of ln B and np.exp maps back; the pooled estimate does not      *)
(* depend on the unit, so log-scale quantities are rationals in that unit. *)
(***************************************************************************)
\* combine_effect_tables pools the estimates of two cohorts (label_a, label_b)
NCohorts == 2
MaxLog == 1

Pow(k) == [k |-> "pow", n |-> k, d |-> 1]

\* np.isfinite(v) and v > 0 on the values of an effect table
NpIsFinite(v) == v.k \in {"pow", "num"}
IsPositive(v) == v.k = "pow" \/ (v.k \in {"num", "inf"} /\ v.n > 0)

\* np.log
NpLog(v) ==
    IF v.k = "pow" THEN Num(v.n)
    ELSE IF v.k = "nan" THEN NaN
    ELSE IF v.k = "inf" THEN (IF v.n > 0 THEN PosInf ELSE NaN)
    ELSE IF v.n = 0 THEN NegInf
    ELSE NaN

\* studies with a positive ratio and positive bounds: ratio B^k, CI [B^(k-l), B^(k+u)]
\* reaching no or one unit to either side
ValidStudies ==
    {[ratio |-> Pow(k), lo |-> Pow(k - l), hi |-> Pow(k + u)] :
        k \in 0..MaxLog, l \in {0, 1}, u \in {0, 1}}

\* studies with one unusable field
DefectStudies ==
    {[ratio |-> r, lo |-> Pow(-1), hi |-> Pow(1)] : r \in {NaN, PosInf, Num(0), Num(-1)}}
    \cup {[ratio |-> Pow(0), lo |-> l, hi |-> Pow(1)] : l \in {NaN, Num(0), Num(-1)}}
    \cup {[ratio |-> Pow(0), lo |-> Pow(-1), hi |-> h] : h \in {NaN, PosInf}}

Studies == ValidStudies \cup DefectStudies

\* line 35: the mask of usable studies
MetaMask(st) ==
    /\ NpIsFinite(st.ratio) /\ NpIsFinite(st.lo) /\ NpIsFinite(st.hi)
    /\ IsPositive(st.ratio) /\ IsPositive(st.lo) /\ IsPositive(st.hi)

TooFewStudiesOffByOne(n) == n < 1

\* line 39: if ratios.size < 2
TooFewStudies(n) == n < 2

\* line 19: (log(hi) - log(lo)) / (2 * 1.96)
_log_se_from_ci(est, lo, hi) == FMul(FSub(NpLog(hi), NpLog(lo)), Rat(25, 98))

MetaTau2NoFloor(q, df, c) == IF FGt(c, Num(0)) THEN PyDiv(FSub(q, Num(df)), c) ELSE Num(0)

\* line 50: tau2 = max(0.0, (q - df) / c) if c > 0 else 0.0
MetaTau2(q, df, c) ==
    IF FGt(c, Num(0)) THEN PyMax(Num(0), PyDiv(FSub(q, Num(df)), c)) ELSE Num(0)

\* lines 42-50: fixed-effect mean, Cochran's Q and the DL estimate of tau2
MetaFixedEffect(kept) ==
    LET n == Len(kept)
        yi == [i \in 1..n |-> NpLog(kept[i].ratio)]
        sei == [i \in 1..n |-> _log_se_from_ci(kept[i].ratio, kept[i].lo, kept[i].hi)]
        vi == [i \in 1..n |-> FMul(sei[i], sei[i])]
        wi == [i \in 1..n |-> NpDiv(Num(1), vi[i])]
        sum_wi == NpSum(wi)
        y_fixed == NpDiv(NpSum([i \in 1..n |-> FMul(wi[i], yi[i])]), sum_wi)
        q == NpSum([i \in 1..n |->
                 FMul(wi[i], FMul(FSub(yi[i], y_fixed), FSub(yi[i], y_fixed)))])
        \* np.sum(wi**2) / np.sum(wi), divided term by term (the same value,
        \* NaN included) so that the integers of the model stay small
        c == FSub(sum_wi, NpSum([i \in 1..n |-> FMul(wi[i], NpDiv(wi[i], sum_wi))]))
    IN  [yi |-> yi, vi |-> vi, y_fixed |-> y_fixed, q |-> q, c |-> c,
         tau2 |-> MetaTau2(q, n - 1, c)]

\* lines 52-57: random-effects mean and interval.  exp is strictly increasing:
\* the result keeps the log of the pooled ratio (log_ratio) and the square of
\* the half-width 1.96 * se_re of its log interval (half_sq), so that
\*   ratio = exp(log_ratio), ratio_lo/hi = exp(log_ratio -/+ sqrt(half_sq)).
MetaRandomEffect(fx) ==
    LET n == Len(fx.yi)
        wi_star == [i \in 1..n |-> NpDiv(Num(1), FAdd(fx.vi[i], fx.tau2))]
        y_re == NpDiv(NpSum([i \in 1..n |-> FMul(wi_star[i], fx.yi[i])]), NpSum(wi_star))
        se_re_sq == NpDiv(Num(1), NpSum(wi_star))
    IN  [kind |-> "MetaResult", log_ratio |-> y_re,
         half_sq |-> FMul(Rat(2401, 625), se_re_sq), tau2 |-> fx.tau2]

None == [kind |-> "None"]

\* the value returned by random_effects_meta_ratio(ratios, ratio_los, ratio_his)
random_effects_meta_ratio(studies) ==
    LET kept == SelectSeq(studies, MetaMask)
    IN  IF TooFewStudies(Len(kept)) THEN None
        ELSE MetaRandomEffect(MetaFixedEffect(kept))

InitMeta ==
    /\ fn = "random_effects_meta_ratio"
    /\ args \in {[studies |-> q] : q \in TablesUpTo(Studies, NCohorts)}
    /\ loc = NoValue
    /\ pc = "start"
    /\ ret = NoValue

\* lines 32-40: fewer than two usable studies
MetaTooFew ==
    /\ fn = "random_effects_meta_ratio" /\ pc = "start"
    /\ TooFewStudies(Len(SelectSeq(args.studies, MetaMask)))
    /\ ret' = None
    /\ pc' = "done"
    /\ UNCHANGED <<fn, args, loc>>

\* lines 32-50
MetaFixed ==
    /\ fn = "random_effects_meta_ratio" /\ pc = "start"
    /\ ~TooFewStudies(Len(SelectSeq(args.studies, MetaMask)))
    /\ loc' = MetaFixedEffect(SelectSeq(args.studies, MetaMask))
    /\ pc' = "random"
    /\ UNCHANGED <<fn, args, ret>>

\* lines 52-57
MetaRandom ==
    /\ fn = "random_effects_meta_ratio" /\ pc = "random"
    /\ ret' = MetaRandomEffect(loc)
    /\ pc' = "done"
    /\ UNCHANGED <<fn, args, loc>>

NextMeta == MetaTooFew \/ MetaFixed \/ MetaRandom

SpecMeta == InitMeta /\ [][NextMeta]_vars

MetaDone == fn = "random_effects_meta_ratio" /\ pc = "done"

\* a study whose ratio and both bounds are finite and strictly positive
UsableValue(v) == v.k = "pow" \/ (v.k = "num" /\ v.n > 0)
UsableStudy(st) == UsableValue(st.ratio) /\ UsableValue(st.lo) /\ UsableValue(st.hi)
UsableCount(studies) == Cardinality({i \in 1..Len(studies) : UsableStudy(studies[i])})

\* C3: random_effects_meta_ratio returns None unless at least two studies have
\* a finite, strictly positive ratio, lower and upper bound; a single usable
\* study is never returned as a pooled result.
C3_NeedsTwoStudies ==
    MetaDone => (ret.kind = "MetaResult" <=> UsableCount(args.studies) >= 2)

C3_Witness ==
    /\ MetaDone /\ Len(args.studies) = 2
    /\ UsableCount(args.studies) = 1
    /\ ret = None

\* two identical usable studies whose interval has positive width
TwoIdentical ==
    /\ MetaDone /\ Len(args.studies) = 2
    /\ args.studies[1] = args.studies[2]
    /\ UsableStudy(args.studies[1])
    /\ args.studies[1].lo.n < args.studies[1].hi.n

\* the pooled interval lies strictly inside [lo, hi] (compared on the log scale)
StrictlyInside(res, st) ==
    LET below == FSub(res.log_ratio, Num(st.lo.n))
        above == FSub(Num(st.hi.n), res.log_ratio)
    IN  /\ FGt(below, Num(0)) /\ FLt(res.half_sq, FMul(below, below))
        /\ FGt(above, Num(0)) /\ FLt(res.half_sq, FMul(above, above))

\* the pooled interval is strictly narrower than [lo, hi] on the log scale
StrictlyNarrower(res, st) ==
    FLt(FMul(Num(4), res.half_sq), Num((st.hi.n - st.lo.n) * (st.hi.n - st.lo.n)))

\* C4 as stated: pooling two identical studies returns the same ratio, tau2 = 0
\* and a pooled CI strictly inside the common input CI.
C4_IdenticalInsideCI ==
    TwoIdentical =>
        /\ ret.kind = "MetaResult"
        /\ ret.log_ratio = Num(args.studies[1].ratio.n)
        /\ ret.tau2 = Num(0)
        /\ StrictlyInside(ret, args.studies[1])

\* C4 as amended: pooling two identical studies returns the same ratio,
\* tau2 = 0 and a pooled CI strictly narrower than the common input CI; the
\* pooled CI is strictly inside the input CI when the ratio is the geometric
\* mean of the two bounds.
C4_IdenticalNarrowerCI ==
    TwoIdentical =>
        /\ ret.kind = "MetaResult"
        /\ ret.log_ratio = Num(args.studies[1].ratio.n)
        /\ ret.tau2 = Num(0)
        /\ StrictlyNarrower(ret, args.studies[1])
        /\ (args.studies[1].ratio.n - args.studies[1].lo.n
                = args.studies[1].hi.n - args.studies[1].ratio.n
            => StrictlyInside(ret, args.studies[1]))

C4_Witness ==
    /\ TwoIdentical
    /\ args.studies[1] = [ratio |-> Pow(1), lo |-> Pow(0), hi |-> Pow(2)]
    /\ ret.kind = "MetaResult" /\ ret.log_ratio = Num(1) /\ ret.tau2 = Num(0)
    /\ StrictlyInside(ret, args.studies[1])

(***************************************************************************)
(* meta.py: combine_effect_tables                                          *)
(***************************************************************************)
\* line 70: the required columns
need == {"outcome", "outcome_label", "ratio", "ratio_lo", "ratio_hi", "effect_type"}

\* a missing effect_type cell
NoType == "NA"
EffectTypes == {"hr", "rr"}

\* outcome names, as numbers so that the merged rows can be ordered
OutcomeA == 1

EffectRows ==
    {[outcome |-> OutcomeA, ratio |-> st.ratio, lo |-> st.lo, hi |-> st.hi, effect_type |-> et] :
        st \in Studies, et \in EffectTypes \cup {NoType}}

\* an effect table: its columns and its rows (outcome names unique within a
\* table); the table that lacks a required column is drawn without rows
EffectTables ==
    {[columns |-> need, rows |-> r] : r \in {<<>>} \cup {<<e>> : e \in EffectRows}}
    \cup {[columns |-> need \ {"effect_type"}, rows |-> <<>>]}

\* the cells of a cohort that has no row for the outcome (outer merge)
MissingCells == [ratio |-> NaN, lo |-> NaN, hi |-> NaN, effect_type |-> NoType]

CellsOf(table, o) ==
    IF \E i \in 1..Len(table.rows) : table.rows[i].outcome = o
    THEN LET r == table.rows[CHOOSE i \in 1..Len(table.rows) : table.rows[i].outcome = o]
         IN  [ratio |-> r.ratio, lo |-> r.lo, hi |-> r.hi, effect_type |-> r.effect_type]
    ELSE MissingCells

\* lines 76-96: rename, keep and outer-merge on "outcome"
MergeOuter(ta, tb) ==
    LET os == SortedSeq({ta.rows[i].outcome : i \in 1..Len(ta.rows)}
                        \cup {tb.rows[i].outcome : i \in 1..Len(tb.rows)})
    IN  [j \in 1..Len(os) |-> [outcome |-> os[j], a |-> CellsOf(ta, os[j]), b |-> CellsOf(tb, os[j])]]

\* pd.notna on a numeric cell
PdNotNa(v) == v.k # "nan"

\* lines 104-114: the estimates of one merged row that enter the pooling
EnteringCells(row) ==
    SelectSeq(<<row.a, row.b>>, LAMBDA c : PdNotNa(c.ratio) /\ PdNotNa(c.lo) /\ PdNotNa(c.hi))

\* lines 112-114: the effect types collected from the entering estimates
CollectedTypes(row) ==
    {EnteringCells(row)[i].effect_type : i \in 1..Len(EnteringCells(row))} \ {NoType}

\* lines 118-121
PoolRow(row) ==
    IF Cardinality(CollectedTypes(row)) > 1 THEN None
    ELSE random_effects_meta_ratio(
             [i \in 1..Len(EnteringCells(row)) |->
                 [ratio |-> EnteringCells(row)[i].ratio,
                  lo |-> EnteringCells(row)[i].lo,
                  hi |-> EnteringCells(row)[i].hi]])

InitCombine ==
    /\ fn = "combine_effect_tables"
    /\ args \in {[effects_a |-> ta, effects_b |-> tb] : ta \in EffectTables, tb \in EffectTables}
    /\ loc = NoValue
    /\ pc = "start"
    /\ ret = NoValue

\* lines 70-74: a table lacks a required column
CombineMissingColumn ==
    /\ fn = "combine_effect_tables" /\ pc = "start"
    /\ \E t \in {args.effects_a, args.effects_b} : need \ t.columns # {}
    /\ ret' = [kind |-> "raise", exc |-> "ValueError"]
    /\ pc' = "done"
    /\ UNCHANGED <<fn, args, loc>>

\* lines 70-98: the merge
CombineMerge ==
    /\ fn = "combine_effect_tables" /\ pc = "start"
    /\ \A t \in {args.effects_a, args.effects_b} : need \ t.columns = {}
    /\ loc' = [m |-> MergeOuter(args.effects_a, args.effects_b), i |-> 1, pooled_rows |-> <<>>]
    /\ pc' = "rows"
    /\ UNCHANGED <<fn, args, ret>>

\* lines 99-130: one merged row
CombinePoolRow ==
    /\ fn = "combine_effect_tables" /\ pc = "rows"
    /\ loc.i <= Len(loc.m)
    /\ loc' = [loc EXCEPT !.i = loc.i + 1,
                          !.pooled_rows = Append(loc.pooled_rows,
                              [outcome |-> loc.m[loc.i].outcome, meta |-> PoolRow(loc.m[loc.i])])]
    /\ UNCHANGED <<fn, args, pc, ret>>

\* lines 131-132 for two tables without rows: pd.DataFrame([]) has no column
\* "outcome", and the merge on it raises
CombineNoRows ==
    /\ fn = "combine_effect_tables" /\ pc = "rows"
    /\ loc.m = <<>>
    /\ ret' = [kind |-> "raise", exc |-> "KeyError"]
    /\ pc' = "done"
    /\ UNCHANGED <<fn, args, loc>>

\* lines 131-132: the merged table with its pooled columns
CombineReturn ==
    /\ fn = "combine_effect_tables" /\ pc = "rows"
    /\ loc.i > Len(loc.m) /\ loc.m # <<>>
    /\ ret' = [kind |-> "DataFrame",
               rows |-> [j \in 1..Len(loc.m) |->
                   [outcome |-> loc.m[j].outcome, a |-> loc.m[j].a, b |-> loc.m[j].b,
                    pooled |-> loc.pooled_rows[
                        CHOOSE k \in 1..Len(loc.pooled_rows) :
                            loc.pooled_rows[k].outcome = loc.m[j].outcome].meta]]]
    /\ pc' = "done"
    /\ UNCHANGED <<fn, args, loc>>

NextCombine ==
    CombineMissingColumn \/ CombineMerge \/ CombinePoolRow \/ CombineNoRows \/ CombineReturn

SpecCombine == InitCombine /\ [][NextCombine]_vars

CombineDone == fn = "combine_effect_tables" /\ pc = "done"

\* the cohort estimates of a merged row that enter the pooling: those with a
\* ratio and both bounds present
Entering(row) == {c \in {row.a, row.b} : c.ratio.k # "nan" /\ c.lo.k # "nan" /\ c.hi.k # "nan"}

\* all entering estimates carry one and the same effect type
SameKnownType(row) ==
    /\ \A c \in Entering(row) : c.effect_type \in EffectTypes
    /\ \A c, e \in Entering(row) : c.effect_type = e.effect_type

\* C2: combine_effect_tables reports a pooled estimate for an outcome only if
\* all the cohort estimates that enter the pooling carry the same effect type;
\* when the types differ or cannot be shown equal the pooled fields are
\* missing, and no exception is raised.
C2_SameEffectType ==
    (CombineDone /\ need \subseteq args.effects_a.columns /\ need \subseteq args.effects_b.columns)
        => /\ ret.kind = "DataFrame"
           /\ \A j \in 1..Len(ret.rows) :
                  ret.rows[j].pooled.kind = "MetaResult" => SameKnownType(ret.rows[j])

\* Tables with several outcomes: per outcome no row or one row, with an
\* estimate that is usable, has an infinite ratio or has a missing ratio
MaxOutcomes == 2

UnionStudies ==
    {[ratio |-> Pow(0), lo |-> Pow(-1), hi |-> Pow(1)],
     [ratio |-> Pow(1), lo |-> Pow(0), hi |-> Pow(1)],
     [ratio |-> PosInf, lo |-> Pow(-1), hi |-> Pow(1)],
     [ratio |-> NaN, lo |-> Pow(-1), hi |-> Pow(1)]}

UnionRow(o, c) ==
    [outcome |-> o, ratio |-> c.st.ratio, lo |-> c.st.lo, hi |-> c.st.hi,
     effect_type |-> c.et]

\* one table per choice of the outcomes present and of their estimates; the
\* rows are in the order of the outcomes
UnionTables ==
    UNION {{[columns |-> need,
             rows |-> LET os == SortedSeq(present)
                      IN  [j \in 1..Len(os) |-> UnionRow(os[j], est[os[j]])]] :
               est \in [present -> [st : UnionStudies, et : EffectTypes]]} :
           present \in SUBSET (1..MaxOutcomes)}
    \cup {[columns |-> need \ {"ratio_lo"},
           rows |-> <<[outcome |-> 1, ratio |-> Pow(0), lo |-> NaN, hi |-> Pow(1),
                       effect_type |-> "hr"]>>]}

InitUnion ==
    /\ fn = "combine_effect_tables"
    /\ args \in {[effects_a |-> ta, effects_b |-> tb] : ta \in UnionTables, tb \in UnionTables}
    /\ loc = NoValue
    /\ pc = "start"
    /\ ret = NoValue

SpecUnion == InitUnion /\ [][NextCombine]_vars

OutcomesOf(table) == {table.rows[i].outcome : i \in 1..Len(table.rows)}

\* the cohort supplies a finite positive ratio, lower and upper bound
Supplies(cells) ==
    /\ NpIsFinite(cells.ratio) /\ NpIsFinite(cells.lo) /\ NpIsFinite(cells.hi)
    /\ IsPositive(cells.ratio) /\ IsPositive(cells.lo) /\ IsPositive(cells.hi)

\* C29: with outcome names unique within each table, combine_effect_tables
\* returns exactly one row per distinct outcome of the two tables, rejects a
\* table that lacks a required column before merging, and reports a pooled
\* ratio for a row only when both cohorts supply a finite positive ratio,
\* lower and upper bound for that outcome.
C29_OneRowPerOutcome ==
    CombineDone =>
        IF need \subseteq args.effects_a.columns /\ need \subseteq args.effects_b.columns
        THEN LET union == OutcomesOf(args.effects_a) \cup OutcomesOf(args.effects_b)
             IN  /\ ret.kind = "DataFrame"
                 /\ Len(ret.rows) = Cardinality(union)
                 /\ {ret.rows[j].outcome : j \in 1..Len(ret.rows)} = union
                 /\ \A j \in 1..Len(ret.rows) :
                        ret.rows[j].pooled.kind = "MetaResult" =>
                            Supplies(ret.rows[j].a) /\ Supplies(ret.rows[j].b)
        ELSE ret.kind = "raise" /\ ret.exc = "ValueError" /\ loc = NoValue

\* the same for tables that have at least one row between them
NonEmptyTablesCombine ==
    (args.effects_a.rows # <<>> \/ args.effects_b.rows # <<>>) => C29_OneRowPerOutcome

(***************************************************************************)
(* fit_weighted_cox (effects.py 85-177): weighted Cox model with one       *)
(* binary covariate, fitted by Newton-Raphson on the Breslow partial       *)
(* likelihood.                                                             *)
(***************************************************************************)
MaxRowsCox == 2
MaxTimeCox == 2
MaxWeightCox == 1

TimesCox == 1..MaxTimeCox
WeightsCox == 0..MaxWeightCox

\* One row of the table: duration, event indicator, weight and treatment
\* cell.  The treatment cell is carried as twice its value (x2), so that the
\* cell 0.5 is the integer 1; the table has the cells 0 and 1, one kind of
\* row with the cell 0.5, one with the cell 2, and one with a missing event.
CoxRows == [time : TimesCox, event : {0, 1}, w : WeightsCox, x2 : {0, 2}]
               \cup {[time |-> 1, event |-> 1, w |-> 1, x2 |-> 1],
                     [time |-> 1, event |-> 1, w |-> 1, x2 |-> 4],
                     [time |-> 1, event |-> NA, w |-> 1, x2 |-> 2]}

\* line 108: to_numpy(dtype=int) of a non-negative float cell drops the
\* fraction
AsTypeInt(x2) == x2 \div 2

\* lines 102-108: dropna, then the typed columns
CoxWork(df) ==
    LET kept == SelectSeq(df, NotMissing)
    IN  [i \in 1..Len(kept) |->
            [time |-> kept[i].time, event |-> kept[i].event, w |-> kept[i].w,
             x |-> AsTypeInt(kept[i].x2)]]

\* line 110: np.isin(x, [0, 1]).all()
AllZeroOne(work) == \A i \in 1..Len(work) : work[i].x \in {0, 1}

\* lines 117-127: the four weight columns summed per distinct time
\* (groupby("time").sum()); ev selects the event columns
CoxGroupSum(work, t, x, ev) ==
    SumInts([i \in 1..Len(work) |->
                IF work[i].time = t /\ work[i].x = x /\ (ev => work[i].event = 1)
                THEN work[i].w ELSE 0])

CoxByTimeAscending(work) ==
    LET asc == SortedSeq({work[i].time : i \in 1..Len(work)})
        CumSum(x, j) == SumInts([k \in 1..j |-> CoxGroupSum(work, asc[k], x, FALSE)])
    IN  [j \in 1..Len(asc) |->
            [time |-> asc[j], R1 |-> CumSum(1, j), R0 |-> CumSum(0, j),
             d1 |-> CoxGroupSum(work, asc[j], 1, TRUE),
             d0 |-> CoxGroupSum(work, asc[j], 0, TRUE),
             d |-> CoxGroupSum(work, asc[j], 1, TRUE) + CoxGroupSum(work, asc[j], 0, TRUE)]]

\* lines 114-135: per distinct time, latest first (sort_values descending):
\* R1, R0 are the running sums (cumsum) of the per-time weights of the two
\* arms, and d1, d0, d the per-time event weights
CoxByTime(work) ==
    LET asc == SortedSeq({work[i].time : i \in 1..Len(work)})
        n == Len(asc)
        desc == [j \in 1..n |-> asc[n + 1 - j]]
        CumSum(x, j) == SumInts([k \in 1..j |-> CoxGroupSum(work, desc[k], x, FALSE)])
    IN  [j \in 1..n |->
            [time |-> desc[j], R1 |-> CumSum(1, j), R0 |-> CumSum(0, j),
             d1 |-> CoxGroupSum(work, desc[j], 1, TRUE),
             d0 |-> CoxGroupSum(work, desc[j], 0, TRUE),
             d |-> CoxGroupSum(work, desc[j], 1, TRUE) + CoxGroupSum(work, desc[j], 0, TRUE)]]

\* line 137: the rows with a positive event weight
CoxEventTimes(work) == SelectSeq(CoxByTime(work), LAMBDA r : r.d > 0)

\* line 150: denom = r1 * eb + r0, one entry per event time
CoxDenom(r, eb) == FAdd(FMul(Num(r.R1), eb), Num(r.R0))

\* line 151: u = sum(d1 - d * (r1 * eb / denom))
ScoreU(et, eb) ==
    NpSum([j \in 1..Len(et) |->
        FSub(Num(et[j].d1),
             FMul(Num(et[j].d), NpDiv(FMul(Num(et[j].R1), eb), CoxDenom(et[j], eb))))])

\* line 152: h = -sum(d * (r1 * eb * r0) / denom**2)
HessH(et, eb) ==
    FNeg(NpSum([j \in 1..Len(et) |->
        NpDiv(FMul(Num(et[j].d), FMul(FMul(Num(et[j].R1), eb), Num(et[j].R0))),
              FMul(CoxDenom(et[j], eb), CoxDenom(et[j], eb)))]))

\* The iterate beta.  Its first value 0.0 is exact, and so is exp(0.0) = 1.0.
\* A later iterate is irrational; the model carries an enclosure of it in
\* half units: beta lies in [lo/2, hi/2].
BetaZero == [lo |-> 0, hi |-> 0]

\* the enclosure of a rational value
Enclose(x) == [lo |-> (2 * x.n) \div x.d, hi |-> -((-2 * x.n) \div x.d)]

\* line 148: range(60)
MaxIter == 60

\* line 155: abs(beta_new - beta) < 1e-10, for a rational difference n/d:
\* |n| * 10^10 < d, computed in two factors of 10^5
TolRoot == 100000
WithinTol(x) == IsNum(x) /\ Abs(x.n) * TolRoot < (x.d + TolRoot - 1) \div TolRoot

\* every event lies in the control arm (d1 = 0 at every event time), or in
\* the treated arm (d1 = d)
AllControl(et) == \A j \in 1..Len(et) : et[j].d1 = 0
AllTreated(et) == \A j \in 1..Len(et) : et[j].d1 = et[j].d

CeilDiv(a, b) == (a + b - 1) \div b

MaxOf(S) == CHOOSE x \in S : \A y \in S : y <= x

\* With ex = r1*eb/denom the terms of u and h at an event time are
\* d1 - d*ex and -d*ex*(1 - ex).  When every event is a control event
\* u = -sum(d*ex) and step = u/h lies in [1, max 1/(1 - ex)]; beta <= 0
\* gives eb <= 1 and 1/(1 - ex) <= (r1 + r0)/r0.  When every event is a
\* treated event u = sum(d*(1 - ex)) and -step lies in [1, max 1/ex];
\* beta >= 0 gives 1/ex <= (r1 + r0)/r1.  StepCeil is that bound, in whole
\* units, over the event times where both arms are at risk.
StepCeil(et) ==
    MaxOf({1} \cup {CeilDiv(et[j].R1 + et[j].R0, IF AllControl(et) THEN et[j].R0 ELSE et[j].R1) :
               j \in {i \in 1..Len(et) : et[i].R1 > 0 /\ et[i].R0 > 0}})

\* line 151 in double precision, every event a treated event: r1*eb/denom
\* is exactly 1.0, and u exactly 0.0, once r0 is below half an ulp of r1*eb.
\* For risk-set weights within a factor 16 of each other that is not the
\* case while beta <= 32 and is the case from beta >= 41 on (half units: 64
\* and 82); in between the rounding decides.  While u is not 0.0 it is
\* within a factor 2 of its real value.
SatNever == 64
SatSure == 82

\* lines 149-158: one pass of the loop body from the iterate beta: the set of
\* its possible outcomes, "raise" (ZeroDivisionError at line 153), "break"
\* (line 157) or "continue" (line 158), with the new iterate
NewtonStep(et, beta) ==
    IF beta = BetaZero
    THEN LET eb == Num(1)
             u == ScoreU(et, eb)
             h == HessH(et, eb)
         IN  IF PyDivRaises(u, h)
             THEN {[kind |-> "raise", beta |-> beta]}
             ELSE LET beta_new == FSub(Num(0), PyDiv(u, h))
                  IN  IF WithinTol(FSub(beta_new, Num(0)))
                      THEN {[kind |-> "break", beta |-> Enclose(beta_new)]}
                      ELSE {[kind |-> "continue", beta |-> Enclose(beta_new)]}
    ELSE IF AllControl(et)
    THEN {[kind |-> "continue",
           beta |-> [lo |-> beta.lo - 2 * StepCeil(et), hi |-> beta.hi - 2]]}
    ELSE IF AllTreated(et)
    THEN (IF beta.hi <= SatNever THEN {} ELSE {[kind |-> "break", beta |-> beta]})
         \cup
         (IF beta.lo >= SatSure THEN {}
          ELSE LET top == IF beta.hi < SatSure THEN beta.hi ELSE SatSure
               IN  {[kind |-> "continue",
                     beta |-> [lo |-> IF beta.lo > SatNever THEN beta.lo + 1
                                      ELSE IF beta.lo + 2 <= SatNever + 1 THEN beta.lo + 2
                                      ELSE SatNever + 1,
                               hi |-> IF beta.hi <= SatNever THEN beta.hi + 2 * StepCeil(et)
                                      ELSE top + 4 * StepCeil(et)]]})
    ELSE {}

\* The data whose iteration the model follows: the score vanishes at beta = 0
\* (the loop ends in its first pass), or all events lie in one arm.  With
\* events in both arms and a nonzero score at 0 the iterates approach an
\* irrational root, for which the model has no arithmetic; Init leaves these
\* tables out.
Followed(df) ==
    LET work == CoxWork(df)
        et == CoxEventTimes(work)
    IN  \/ ~AllZeroOne(work)
        \/ et = <<>>
        \/ AllControl(et) \/ AllTreated(et)
        \/ ScoreU(et, Num(1)) = Num(0)

\* line 173: the floor 1e-24 of the variance, and a variance known only to
\* be finite and not below the floor
VarFloor == [k |-> "floor", n |-> 0, d |-> 1]
VarPositive == [k |-> "positive", n |-> 0, d |-> 1]

\* lines 162-166: the risk-set mean of x at the time of an event row; a time
\* that is not among the event times maps to NaN
ExBar(et, t, eb) ==
    IF \E j \in 1..Len(et) : et[j].time = t
    THEN LET r == et[CHOOSE j \in 1..Len(et) : et[j].time = t]
         IN  NpDiv(FMul(Num(r.R1), eb), CoxDenom(r, eb))
    ELSE NaN

\* lines 161-173: max(var_robust, 1e-24), the square of se
CoxSeSquared(work, et, beta) ==
    LET ev == SelectSeq(work, LAMBDA r : r.event = 1)
    IN  IF beta = BetaZero
        THEN LET eb == Num(1)
                 score_i == [i \in 1..Len(ev) |->
                                FMul(Num(ev[i].w), FSub(Num(ev[i].x), ExBar(et, ev[i].time, eb)))]
                 i_obs == FNeg(HessH(et, eb))
                 meat == NpSum([i \in 1..Len(ev) |-> FMul(score_i[i], score_i[i])])
                 var_robust == IF FGt(i_obs, Num(0)) THEN NpDiv(meat, FMul(i_obs, i_obs)) ELSE NaN
             IN  IF IsNaN(var_robust) THEN NaN
                 ELSE IF FGt(var_robust, Num(0)) THEN var_robust ELSE VarFloor
        ELSE IF \E i \in 1..Len(ev) : IsNaN(ExBar(et, ev[i].time, Num(1)))
             THEN NaN
             ELSE VarPositive

InitCox ==
    /\ fn = "fit_weighted_cox"
    /\ args \in {[df |-> d] : d \in {t \in TablesUpTo(CoxRows, MaxRowsCox) : Followed(t)}}
    /\ loc = NoValue
    /\ pc = "start"
    /\ ret = NoValue

\* lines 101-111: a converted treatment value outside {0, 1}
CoxNotBinary ==
    /\ fn = "fit_weighted_cox" /\ pc = "start"
    /\ ~AllZeroOne(CoxWork(args.df))
    /\ ret' = [kind |-> "raise", exc |-> "ValueError"]
    /\ pc' = "done"
    /\ UNCHANGED <<fn, args, loc>>

\* lines 101-139: no time with a positive event weight
CoxNoEvents ==
    /\ fn = "fit_weighted_cox" /\ pc = "start"
    /\ AllZeroOne(CoxWork(args.df))
    /\ CoxEventTimes(CoxWork(args.df)) = <<>>
    /\ ret' = [kind |-> "raise", exc |-> "ValueError"]
    /\ pc' = "done"
    /\ UNCHANGED <<fn, args, loc>>

\* lines 101-147: the event-time summaries and beta = 0.0
CoxAggregate ==
    /\ fn = "fit_weighted_cox" /\ pc = "start"
    /\ AllZeroOne(CoxWork(args.df))
    /\ CoxEventTimes(CoxWork(args.df)) # <<>>
    /\ loc' = [df0 |-> CoxWork(args.df), event_times |-> CoxEventTimes(CoxWork(args.df)),
               beta |-> BetaZero, it |-> 0, broke |-> FALSE]
    /\ pc' = "newton"
    /\ UNCHANGED <<fn, args, ret>>

\* line 153: step = u / h with h = 0.0
NewtonZeroDivision ==
    /\ fn = "fit_weighted_cox" /\ pc = "newton"
    /\ loc.it < MaxIter
    /\ \E o \in NewtonStep(loc.event_times, loc.beta) : o.kind = "raise"
    /\ ret' = [kind |-> "raise", exc |-> "ZeroDivisionError"]
    /\ pc' = "done"
    /\ UNCHANGED <<fn, args, loc>>

NewtonContinueUnbounded ==
    /\ fn = "fit_weighted_cox" /\ pc = "newton"
    /\ \E o \in NewtonStep(loc.event_times, loc.beta) :
           /\ o.kind = "continue"
           /\ loc' = [loc EXCEPT !.beta = o.beta, !.it = loc.it + 1]
    /\ UNCHANGED <<fn, args, pc, ret>>

\* lines 149-158: a pass that does not end the loop
NewtonContinue ==
    /\ fn = "fit_weighted_cox" /\ pc = "newton"
    /\ loc.it < MaxIter
    /\ \E o \in NewtonStep(loc.event_times, loc.beta) :
           /\ o.kind = "continue"
           /\ loc' = [loc EXCEPT !.beta = o.beta, !.it = loc.it + 1]
    /\ UNCHANGED <<fn, args, pc, ret>>

\* lines 149-157: the pass that meets the tolerance and breaks
NewtonBreak ==
    /\ fn = "fit_weighted_cox" /\ pc = "newton"
    /\ loc.it < MaxIter
    /\ \E o \in NewtonStep(loc.event_times, loc.beta) :
           /\ o.kind = "break"
           /\ loc' = [loc EXCEPT !.beta = o.beta, !.it = loc.it + 1, !.broke = TRUE]
    /\ pc' = "after_loop"
    /\ UNCHANGED <<fn, args, ret>>

\* line 148: the 60 passes are used up
NewtonExhausted ==
    /\ fn = "fit_weighted_cox" /\ pc = "newton"
    /\ loc.it = MaxIter
    /\ pc' = "after_loop"
    /\ UNCHANGED <<fn, args, loc, ret>>

\* lines 160-177: hr = exp(beta) and its interval exp(beta -+ 1.96 * se)
CoxReturn ==
    /\ fn = "fit_weighted_cox" /\ pc = "after_loop"
    /\ ret' = [kind |-> "CoxEstimate",
               hr |-> [log |-> loc.beta],
               hr_ci95 |-> [log |-> loc.beta,
                            se_sq |-> CoxSeSquared(loc.df0, loc.event_times, loc.beta)]]
    /\ pc' = "done"
    /\ UNCHANGED <<fn, args, loc>>

NextCox ==
    \/ CoxNotBinary \/ CoxNoEvents \/ CoxAggregate
    \/ NewtonZeroDivision \/ NewtonContinue \/ NewtonBreak \/ NewtonExhausted
    \/ CoxReturn

SpecCox == InitCox /\ [][NextCox]_vars

CoxDone == fn = "fit_weighted_cox" /\ pc = "done"

\* the rows of the call's table that survive dropna, with their cells as given
CoxKept == SelectSeq(args.df, NotMissing)

\* no distinct time of the kept rows has a positive weighted event count
NoEventTime ==
    \A t \in TimesCox :
        SumInts([i \in 1..Len(CoxKept) |->
            IF CoxKept[i].time = t /\ CoxKept[i].event = 1 THEN CoxKept[i].w ELSE 0]) <= 0

\* some treatment cell is other than 0 or 1
NonBinaryTreatment == \E i \in 1..Len(CoxKept) : CoxKept[i].x2 \notin {0, 2}

\* C5: fit_weighted_cox raises its fit error (the ValueError of lines 111 and
\* 139), and returns no estimate, when after dropna no distinct time has a
\* positive weighted event count or when a treatment value is other than 0
\* or 1.
C5_RaisesOnNoEventsOrNonBinary ==
    (CoxDone /\ (NoEventTime \/ NonBinaryTreatment))
        => (ret.kind = "raise" /\ ret.exc = "ValueError")

\* the returned value carries nothing besides hr and hr_ci95
PlainEstimate(r) == r.kind = "CoxEstimate" /\ DOMAIN r = {"kind", "hr", "hr_ci95"}

\* the call returned after 60 passes none of which met the tolerance
ReturnedUnconverged == CoxDone /\ ret.kind = "CoxEstimate" /\ ~loc.broke

\* C6: when no pass of the Newton-Raphson loop produced an update below 1e-10
\* within the 60 passes, the caller can tell: the value returned is not a
\* plain estimate of the form a converged fit returns.
C6_UnconvergedIsSurfaced == ReturnedUnconverged => ~PlainEstimate(ret)

\* C7: for every input with a 0/1 treatment column and at least one event of
\* positive weight, fit_weighted_cox returns a CoxEstimate and raises no
\* exception, also when one arm has no at-risk weight at any event time.
C7_RaisesOnlyOnInvalidInput ==
    (CoxDone /\ ~NonBinaryTreatment /\ ~NoEventTime) => ret.kind = "CoxEstimate"

\* the kept rows are binary in treatment, all of weight 1, with one event
SingleEventUnit ==
    /\ CoxDone /\ ~NonBinaryTreatment
    /\ \A i \in 1..Len(CoxKept) : CoxKept[i].w = 1
    /\ Cardinality({i \in 1..Len(CoxKept) : CoxKept[i].event = 1}) = 1

\* the event subject, and the number of subjects of arm a at risk at its time
EventRow == CoxKept[CHOOSE i \in 1..Len(CoxKept) : CoxKept[i].event = 1]
AtRisk(a) ==
    Cardinality({i \in 1..Len(CoxKept) :
                    CoxKept[i].x2 = 2 * a /\ CoxKept[i].time >= EventRow.time})

\* The partial likelihood of a single event is exp(beta * x) / (n1 * exp(beta)
\* + n0): with both arms at risk it increases without bound in beta for a
\* treated event and decreases for a control event, so its maximiser is
\* beta = +inf (HR = inf) or beta = -inf (HR = 0); with one arm at risk it is
\* constant.
ClosedFormLogHR ==
    IF EventRow.x2 = 2 /\ AtRisk(0) > 0 THEN PosInf
    ELSE IF EventRow.x2 = 0 /\ AtRisk(1) > 0 THEN NegInf
    ELSE NaN

\* C22: for a dataset with exactly one event and all weights 1,
\* fit_weighted_cox returns the closed-form single-event hazard ratio
\* exactly, whichever arm the event subject belongs to and whatever the arm
\* sizes of the risk set.
C22_SingleEventClosedForm ==
    SingleEventUnit =>
        /\ ret.kind = "CoxEstimate"
        /\ ~IsNaN(ClosedFormLogHR) => ret.hr.log = ClosedFormLogHR

(***************************************************************************)
(* _weighted_aj_cif_at (effects.py 234-292) called on its own: the         *)
(* weighted Aalen-Johansen cumulative incidence of cause 1.                *)
(***************************************************************************)
MaxRowsAJ == 3
MaxTimeAJ == 2
MaxWeightAJ == 1

TimesAJ == 1..MaxTimeAJ

\* one subject: time, status (0 censored, 1 interest, 2 competing) and a
\* positive weight; one kind of row has weight 0 and one an infinite time
AJRows == [time : {Num(t) : t \in TimesAJ}, status : {0, 1, 2}, w : 1..MaxWeightAJ]
              \cup {[time |-> Num(1), status |-> 1, w |-> 0],
                    [time |-> PosInf, status |-> 1, w |-> 1]}

InitAJ ==
    /\ fn = "_weighted_aj_cif_at"
    /\ args \in {[rows |-> d, horizon_days |-> h] :
                    d \in TablesUpTo(AJRows, MaxRowsAJ), h \in TimesAJ}
    /\ loc = NoValue
    /\ pc = "start"
    /\ ret = NoValue

\* lines 253-255 and 270-272: nothing passes the mask
AJNothing ==
    /\ fn = "_weighted_aj_cif_at" /\ pc = "start"
    /\ LET kept == SelectSeq(args.rows, AJMask)
       IN  kept = <<>> \/ SumInts([i \in 1..Len(kept) |-> kept[i].w]) <= 0
    /\ ret' = NaN
    /\ pc' = "done"
    /\ UNCHANGED <<fn, args, loc>>

\* lines 249-278: mask, cap, sort, aggregate, surv = 1.0, cif = 0.0
AJPrepare ==
    /\ fn = "_weighted_aj_cif_at" /\ pc = "start"
    /\ LET kept == SelectSeq(args.rows, AJMask)
       IN  /\ kept # <<>>
           /\ SumInts([i \in 1..Len(kept) |-> kept[i].w]) > 0
           /\ loc' = [grouped |-> AJGrouped(kept, args.horizon_days), i |-> 1,
                      cif |-> Num(0), surv |-> Num(1)]
    /\ pc' = "loop"
    /\ UNCHANGED <<fn, args, ret>>

\* lines 279-290: one pass of the loop for a distinct time
AJLoopStep ==
    /\ fn = "_weighted_aj_cif_at" /\ pc = "loop"
    /\ loc.i <= Len(loc.grouped)
    /\ ~(loc.grouped[loc.i].time > args.horizon_days)
    /\ LET st == AJUpdate([cif |-> loc.cif, surv |-> loc.surv], loc.grouped[loc.i])
       IN  loc' = [loc EXCEPT !.cif = st.cif, !.surv = st.surv, !.i = loc.i + 1]
    /\ UNCHANGED <<fn, args, pc, ret>>

\* lines 279-281 and 292: the loop ends (rows exhausted, or a time beyond
\* the horizon) and the CIF is returned
AJReturn ==
    /\ fn = "_weighted_aj_cif_at" /\ pc = "loop"
    /\ IF loc.i > Len(loc.grouped) THEN TRUE
       ELSE loc.grouped[loc.i].time > args.horizon_days
    /\ ret' = loc.cif
    /\ pc' = "done"
    /\ UNCHANGED <<fn, args, loc>>

NextAJ == AJNothing \/ AJPrepare \/ AJLoopStep \/ AJReturn

SpecAJ == InitAJ /\ [][NextAJ]_vars

AJRunning == fn = "_weighted_aj_cif_at" /\ pc = "loop"
AJDone == fn = "_weighted_aj_cif_at" /\ pc = "done"

AJPositiveWeights == \A i \in 1..Len(args.rows) : args.rows[i].w > 0

\* the competing-event CIF after the first k distinct times: the sum of
\* S_before * d2 / Y over them
RECURSIVE AJCompeting(_, _)
AJCompeting(grouped, k) ==
    IF k = 0 THEN Num(0)
    ELSE LET g == grouped[k]
             before == AJLoop(SubSeq(grouped, 1, k - 1), 1,
                              [cif |-> Num(0), surv |-> Num(1)], g.time)
         IN  FAdd(AJCompeting(grouped, k - 1),
                  IF g.y > 0 THEN FMul(before.surv, PyDiv(Num(g.d2), Num(g.y))) ELSE Num(0))

\* after each distinct time: the CIF is within [0,1] and the three parts sum to 1
AJBalance ==
    (AJRunning /\ AJPositiveWeights) =>
        /\ FLe(Num(0), loc.cif) /\ FLe(loc.cif, Num(1))
        /\ FAdd(FAdd(loc.cif, AJCompeting(loc.grouped, loc.i - 1)), loc.surv) = Num(1)

\* the CIF returned is non-decreasing in the horizon
AJHorizonMonotone ==
    (AJDone /\ AJPositiveWeights /\ ~IsNaN(ret)) =>
        /\ FLe(Num(0), ret) /\ FLe(ret, Num(1))
        /\ \A h \in TimesAJ :
               h <= args.horizon_days => FLe(_weighted_aj_cif_at(args.rows, h), ret)

\* the CIF never decreases from one distinct time to the next
AJCifStep == (AJRunning /\ AJPositiveWeights /\ pc' = "loop") => FLe(loc.cif, loc'.cif)

\* C12: for positive weights, after each distinct time processed by
\* _weighted_aj_cif_at the interest CIF is non-decreasing and within [0,1], and
\* interest CIF + competing CIF + overall survival equals 1; the CIF returned
\* is non-decreasing in the horizon.
C12_AJInvariants == [](AJBalance /\ AJHorizonMonotone) /\ [][AJCifStep]_vars

\* a run over at least two distinct times with an interest and a competing
\* event, ending with a CIF strictly between 0 and 1
C12_Witness ==
    /\ AJDone /\ AJPositiveWeights /\ ~IsNaN(ret)
    /\ loc.i > 2
    /\ FLt(Num(0), ret) /\ FLt(ret, Num(1))
    /\ FLt(Num(0), AJCompeting(loc.grouped, loc.i - 1))
    /\ \E h \in TimesAJ : h < args.horizon_days /\ FLt(_weighted_aj_cif_at(args.rows, h), ret)

(***************************************************************************)
(* The bootstrap of weighted_competing_risk_cif_rr_at (effects.py          *)
(* 356-379), in a process that calls the function twice.                   *)
(*                                                                         *)
(* A NumPy generator is a deterministic state machine.  The model replaces *)
(* PCG64 by a linear congruential generator with 16 states: seeding maps   *)
(* the seed to a state, and every draw advances the state.                 *)
(***************************************************************************)
MaxRowsBoot == 3
MaxBoot == 2

\* np.random.default_rng(int(seed))
SeededRng(seed) == (7 * seed + 1) % 16

\* one step of the generator, and the integer in [0, n) drawn from a state
RngStep(state) == (5 * state + 3) % 16
RngValue(state, n) == (state \div 4) % n

\* rng.integers(0, n, size = size): the values drawn and the state left
RECURSIVE RngIntegers(_, _, _)
RngIntegers(state, n, size) ==
    IF size = 0 THEN [vals |-> <<>>, state |-> state]
    ELSE LET rest == RngIntegers(RngStep(state), n, size - 1)
         IN  [vals |-> <<RngValue(RngStep(state), n)>> \o rest.vals, state |-> rest.state]

BootGeneratorGlobal(seed, process) == process

\* line 359: the generator of a call is made from the seed alone; the
\* process-wide random state is not consulted
BootGenerator(seed, process) == SeededRng(seed)

\* the values of a sequence in ascending order
RECURSIVE SortF(_)
SortF(xs) ==
    IF xs = <<>> THEN <<>>
    ELSE LET m == CHOOSE i \in 1..Len(xs) : \A j \in 1..Len(xs) : FLe(xs[i], xs[j])
         IN  <<xs[m]>> \o SortF([j \in 1..(Len(xs) - 1) |-> IF j < m THEN xs[j] ELSE xs[j + 1]])

\* np.quantile(xs, qn/qd) with linear interpolation
NpQuantile(xs, qn, qd) ==
    LET v == SortF(xs)
        lo == (qn * (Len(xs) - 1)) \div qd
        frac == Rat(qn * (Len(xs) - 1) - lo * qd, qd)
    IN  IF lo + 1 >= Len(xs) THEN v[lo + 1]
        ELSE FAdd(v[lo + 1], FMul(frac, FSub(v[lo + 2], v[lo + 1])))

\* lines 366-374: one replicate from the generator state rng: the indices
\* drawn in the two arms, the state left, and the replicate's RD and RR
\* (None unless both CIFs are finite)
BootReplicate(resolved, horizon, rng) ==
    LET arm1 == Arm(resolved, 1)
        arm0 == Arm(resolved, 0)
        b1 == RngIntegers(rng, Len(arm1), Len(arm1))
        b0 == RngIntegers(b1.state, Len(arm0), Len(arm0))
        bcif1 == _weighted_aj_cif_at([k \in 1..Len(arm1) |-> arm1[b1.vals[k] + 1]], horizon)
        bcif0 == _weighted_aj_cif_at([k \in 1..Len(arm0) |-> arm0[b0.vals[k] + 1]], horizon)
        both == IsFinite(bcif1) /\ IsFinite(bcif0)
    IN  [b1 |-> b1.vals, b0 |-> b0.vals, rng |-> b0.state,
         rd |-> IF both THEN <<FSub(bcif1, bcif0)>> ELSE <<>>,
         rr |-> IF both THEN <<RiskRatio(bcif1, bcif0)>> ELSE <<>>]

BootIntervalsUnfiltered(rd_s, rr_s) ==
    LET rr_s_f == SelectSeq(rr_s, LAMBDA x : IsFinite(x))
    IN  [rd_ci95 |-> IF rd_s # <<>>
                     THEN <<NpQuantile(rd_s, 1, 40), NpQuantile(rd_s, 39, 40)>> ELSE NoValue,
         rr_ci95 |-> IF rr_s_f # <<>>
                     THEN <<NpQuantile(rr_s_f, 1, 40), NpQuantile(rr_s_f, 39, 40)>> ELSE NoValue]

\* lines 375-379: the percentile intervals of the collected replicates
BootIntervals(rd_s, rr_s) ==
    LET rr_s_f == SelectSeq(rr_s, LAMBDA x : IsFinite(x) /\ FGt(x, Num(0)))
    IN  [rd_ci95 |-> IF rd_s # <<>>
                     THEN <<NpQuantile(rd_s, 1, 40), NpQuantile(rd_s, 39, 40)>> ELSE NoValue,
         rr_ci95 |-> IF rr_s_f # <<>>
                     THEN <<NpQuantile(rr_s_f, 1, 40), NpQuantile(rr_s_f, 39, 40)>> ELSE NoValue]

\* subjects of the bootstrap runs: unit weights and no competing event, and
\* one treated subject of weight zero (masked out by _weighted_aj_cif_at)
TimesBoot == {1, 2}

BootRows ==
    [t : {0, 1}, ei : {0, 1}, ti : TimesBoot, ec : {0}, tc : {NA}, w : {1}]
    \cup {[t |-> 1, ei |-> 1, ti |-> 1, ec |-> 0, tc |-> NA, w |-> 0]}

\* the process: a first call of the function, with the process-wide random
\* state at process; first keeps what the first call drew and returned
InitBoot ==
    /\ fn = "weighted_competing_risk_cif_rr_at"
    /\ args \in {[df |-> d, horizon_days |-> h, n_bootstrap |-> n, seed |-> s] :
                    d \in TablesUpTo(BootRows, MaxRowsBoot), h \in TimesBoot,
                    n \in 0..MaxBoot, s \in {0, 1}}
    /\ loc = [call |-> 1, process |-> 0, first |-> NoValue]
    /\ pc = "start"
    /\ ret = NoValue

\* lines 316-361: status resolution, point estimates, and the generator
BootEnter ==
    /\ fn = "weighted_competing_risk_cif_rr_at" /\ pc = "start"
    /\ args.n_bootstrap > 0
    /\ LET work == SelectSeq(args.df, CRNotMissing)
           resolved == [i \in 1..Len(work) |-> ResolveStatus(work[i], args.horizon_days)]
           cif1 == _weighted_aj_cif_at(Arm(resolved, 1), args.horizon_days)
           cif0 == _weighted_aj_cif_at(Arm(resolved, 0), args.horizon_days)
       IN  loc' = [call |-> loc.call, process |-> loc.process, first |-> loc.first,
                   resolved |-> resolved, cif1 |-> cif1, cif0 |-> cif0,
                   rd |-> FSub(cif1, cif0), rr |-> RiskRatio(cif1, cif0),
                   rng |-> BootGenerator(args.seed, loc.process),
                   k |-> 0, draws |-> <<>>, rd_s |-> <<>>, rr_s |-> <<>>]
    /\ pc' = "replicates"
    /\ UNCHANGED <<fn, args, ret>>

\* lines 316-357 and 381-388: with n_bootstrap = 0 no generator is made and
\* the estimate is returned without intervals
BootNone ==
    /\ fn = "weighted_competing_risk_cif_rr_at" /\ pc = "start"
    /\ ~(args.n_bootstrap > 0)
    /\ LET work == SelectSeq(args.df, CRNotMissing)
           resolved == [i \in 1..Len(work) |-> ResolveStatus(work[i], args.horizon_days)]
           cif1 == _weighted_aj_cif_at(Arm(resolved, 1), args.horizon_days)
           cif0 == _weighted_aj_cif_at(Arm(resolved, 0), args.horizon_days)
       IN  /\ loc' = [call |-> loc.call, process |-> loc.process, first |-> loc.first,
                      resolved |-> resolved, cif1 |-> cif1, cif0 |-> cif0,
                      rd |-> FSub(cif1, cif0), rr |-> RiskRatio(cif1, cif0),
                      rng |-> NoValue,
                      k |-> 0, draws |-> <<>>, rd_s |-> <<>>, rr_s |-> <<>>]
           /\ ret' = [kind |-> "RiskEstimate", risk_treated |-> cif1, risk_control |-> cif0,
                      rd |-> FSub(cif1, cif0), rr |-> RiskRatio(cif1, cif0),
                      rd_ci95 |-> NoValue, rr_ci95 |-> NoValue]
    /\ pc' = "done"
    /\ UNCHANGED <<fn, args>>

\* line 362: both arms have subjects
BothArms == Arm(loc.resolved, 1) # <<>> /\ Arm(loc.resolved, 0) # <<>>

\* lines 365-374: one pass of the replicate loop
BootLoopStep ==
    /\ fn = "weighted_competing_risk_cif_rr_at" /\ pc = "replicates"
    /\ BothArms /\ loc.k < args.n_bootstrap
    /\ LET b == BootReplicate(loc.resolved, args.horizon_days, loc.rng)
       IN  loc' = [loc EXCEPT !.rng = b.rng, !.k = loc.k + 1,
                              !.draws = Append(loc.draws, <<b.b1, b.b0>>),
                              !.rd_s = loc.rd_s \o b.rd, !.rr_s = loc.rr_s \o b.rr]
    /\ UNCHANGED <<fn, args, pc, ret>>

\* lines 362 and 375-388: the intervals and the returned estimate
BootReturn ==
    /\ fn = "weighted_competing_risk_cif_rr_at" /\ pc = "replicates"
    /\ IF BothArms THEN loc.k = args.n_bootstrap ELSE TRUE
    /\ LET ci == BootIntervals(loc.rd_s, loc.rr_s)
       IN  ret' = [kind |-> "RiskEstimate", risk_treated |-> loc.cif1, risk_control |-> loc.cif0,
                   rd |-> loc.rd, rr |-> loc.rr, rd_ci95 |-> ci.rd_ci95, rr_ci95 |-> ci.rr_ci95]
    /\ pc' = "done"
    /\ UNCHANGED <<fn, args, loc>>

\* the caller invokes the function again with the same arguments; in between,
\* other code may have drawn from the process-wide random state
BootCallAgain ==
    /\ fn = "weighted_competing_risk_cif_rr_at" /\ pc = "done"
    /\ loc.call = 1
    /\ \E process \in {loc.process, RngStep(loc.process)} :
          loc' = [call |-> 2, process |-> process,
                  first |-> [draws |-> loc.draws, ret |-> ret]]
    /\ pc' = "start"
    /\ ret' = NoValue
    /\ UNCHANGED <<fn, args>>

NextBoot == BootEnter \/ BootNone \/ BootLoopStep \/ BootReturn \/ BootCallAgain

SpecBoot == InitBoot /\ [][NextBoot]_vars

SecondCallDone == fn = "weighted_competing_risk_cif_rr_at" /\ pc = "done" /\ loc.call = 2

BootDone == fn = "weighted_competing_risk_cif_rr_at" /\ pc = "done"

\* the two CIFs of every replicate, recomputed from the indices it drew
ReplicateCIFs ==
    LET arm1 == Arm(loc.resolved, 1)
        arm0 == Arm(loc.resolved, 0)
    IN  [k \in 1..Len(loc.draws) |->
            [c1 |-> _weighted_aj_cif_at(
                        [i \in 1..Len(loc.draws[k][1]) |-> arm1[loc.draws[k][1][i] + 1]],
                        args.horizon_days),
             c0 |-> _weighted_aj_cif_at(
                        [i \in 1..Len(loc.draws[k][2]) |-> arm0[loc.draws[k][2][i] + 1]],
                        args.horizon_days)]]

\* the replicates with two finite CIFs, and those among them with a finite
\* positive ratio
FiniteReplicates == SelectSeq(ReplicateCIFs, LAMBDA r : IsFinite(r.c1) /\ IsFinite(r.c0))
RatioReplicates ==
    SelectSeq(FiniteReplicates, LAMBDA r : FGt(r.c1, Num(0)) /\ FGt(r.c0, Num(0)))

\* C25: each replicate resamples with replacement within each arm, keeping
\* the arm sizes; the RD interval is formed from every replicate with two
\* finite CIFs, the RR interval only from replicates with a finite ratio > 0;
\* with n_bootstrap = 0 or an empty arm both intervals are absent.
C25_BootstrapIntervals ==
    BootDone =>
        LET arm1 == Arm(loc.resolved, 1)
            arm0 == Arm(loc.resolved, 0)
            finite == FiniteReplicates
            ratio == SelectSeq(finite, LAMBDA r : FGt(r.c1, Num(0)) /\ FGt(r.c0, Num(0)))
            rds == [i \in 1..Len(finite) |-> FSub(finite[i].c1, finite[i].c0)]
            rrs == [i \in 1..Len(ratio) |-> PyDiv(ratio[i].c1, ratio[i].c0)]
        IN  IF args.n_bootstrap = 0 \/ arm1 = <<>> \/ arm0 = <<>>
            THEN loc.draws = <<>> /\ ret.rd_ci95 = NoValue /\ ret.rr_ci95 = NoValue
            ELSE /\ Len(loc.draws) = args.n_bootstrap
                 /\ \A k \in 1..Len(loc.draws) :
                        /\ Len(loc.draws[k][1]) = Len(arm1)
                        /\ Len(loc.draws[k][2]) = Len(arm0)
                        /\ \A i \in 1..Len(arm1) : loc.draws[k][1][i] \in 0..(Len(arm1) - 1)
                        /\ \A i \in 1..Len(arm0) : loc.draws[k][2][i] \in 0..(Len(arm0) - 1)
                 /\ ret.rd_ci95 = IF rds = <<>> THEN NoValue
                                  ELSE <<NpQuantile(rds, 1, 40), NpQuantile(rds, 39, 40)>>
                 /\ ret.rr_ci95 = IF rrs = <<>> THEN NoValue
                                  ELSE <<NpQuantile(rrs, 1, 40), NpQuantile(rrs, 39, 40)>>

\* two replicates, one of them with a repeated index and a CIF of zero in one
\* arm: it counts for the RD interval and not for the RR interval
C25_Witness ==
    /\ BootDone
    /\ Len(loc.draws) = 2
    /\ Len(FiniteReplicates) = 2 /\ Len(RatioReplicates) = 1
    /\ \E k \in 1..2 : \E a \in 1..2 :
           Len(loc.draws[k][a]) = 2 /\ loc.draws[k][a][1] = loc.draws[k][a][2]
    /\ ret.rd_ci95 # NoValue /\ ret.rr_ci95 # NoValue

(***************************************************************************)
(* ps.py: fit_propensity_score, and the loading of its configuration       *)
(* (study.py, load_config).                                                *)
(*                                                                         *)
(* The fitted pipeline is library code: the model takes the probabilities  *)
(* predict_proba returns as any vector over PSValues.  Quantile levels are *)
(* carried in hundredths.                                                  *)
(***************************************************************************)
MaxRowsPS == 3

PSValues == {Num(0), Rat(1, 2), Num(1)}
QuantileLevels == {-1, 0, 1, 99, 100, 101}

\* PSConfig.ps_clip, (1e-6, 1 - 1e-6); the model carries the clip as 1e-2,
\* whose products with the other values stay within 32 bits
ps_clip == <<Rat(1, 100), Rat(99, 100)>>

NpClipSwapped(x, lo, hi) ==
    IF IsNaN(x) THEN NaN ELSE PyMax(FMin(x, lo), hi)

\* np.clip(x, lo, hi) on one float value: minimum(maximum(x, lo), hi)
NpClip(x, lo, hi) ==
    IF IsNaN(x) THEN NaN ELSE FMin(PyMax(x, lo), hi)

ClippedPSNone(ps) == ps

\* line 86
ClippedPS(ps) == [i \in 1..Len(ps) |-> NpClip(ps[i], ps_clip[1], ps_clip[2])]

\* lines 88-89: np.mean(y) and the stabilized weights
StabilizedWeights(y, ps) ==
    LET p_treated == NpDiv(Num(SumInts(y)), Num(Len(y)))
    IN  [i \in 1..Len(y) |->
            IF y[i] = 1 THEN NpDiv(p_treated, ps[i])
            ELSE NpDiv(FSub(Num(1), p_treated), FSub(Num(1), ps[i]))]

\* line 92: 0.0 <= lo_q < hi_q <= 1.0
ValidQuantiles(wt) == 0 <= wt[1] /\ wt[1] < wt[2] /\ wt[2] <= 100

\* lines 94-96
TruncatedWeights(weights, wt) ==
    LET lo == NpQuantile(weights, wt[1], 100)
        hi == NpQuantile(weights, wt[2], 100)
    IN  [i \in 1..Len(weights) |-> NpClip(weights[i], lo, hi)]

OneClass(y) == \A i, j \in 1..Len(y) : y[i] = y[j]

InitFitPS ==
    /\ fn = "fit_propensity_score"
    /\ args \in {[y |-> y, usable |-> u, weight_truncation |-> <<lo, hi>>] :
                    y \in UNION {[1..n -> {0, 1}] : n \in 1..MaxRowsPS},
                    u \in BOOLEAN, lo \in QuantileLevels, hi \in QuantileLevels}
    /\ loc = [fitted |-> FALSE, ps |-> NoValue, weights |-> NoValue]
    /\ pc = "start"
    /\ ret = NoValue

InitLoadConfig ==
    /\ fn = "load_config"
    /\ args \in {[weight_truncation |-> <<lo, hi>>] :
                    lo \in QuantileLevels, hi \in QuantileLevels}
    /\ loc = NoValue
    /\ pc = "start"
    /\ ret = NoValue

InitPS == InitFitPS \/ InitLoadConfig

\* study.py lines 79-87 and 107-114: the pair is stored as given
LoadConfig ==
    /\ fn = "load_config" /\ pc = "start"
    /\ ret' = [kind |-> "StudyConfig", weight_truncation |-> args.weight_truncation]
    /\ pc' = "done"
    /\ UNCHANGED <<fn, args, loc>>

\* lines 35-39
PSNoCovariates ==
    /\ fn = "fit_propensity_score" /\ pc = "start"
    /\ ~args.usable
    /\ ret' = [kind |-> "raise", exc |-> "ValueError"]
    /\ pc' = "done"
    /\ UNCHANGED <<fn, args, loc>>

\* lines 82-83 on a cohort with a single treatment class: the solver may
\* refuse such data (PSFit stays enabled for the builds in which it does not)
PSFitOneClass ==
    /\ fn = "fit_propensity_score" /\ pc = "start"
    /\ args.usable /\ OneClass(args.y)
    /\ ret' = [kind |-> "raise", exc |-> "ValueError"]
    /\ pc' = "done"
    /\ UNCHANGED <<fn, args, loc>>

\* lines 41-85: the pipeline is fitted and predicts a probability per subject
PSFit ==
    /\ fn = "fit_propensity_score" /\ pc = "start"
    /\ args.usable
    /\ \E ps \in [1..Len(args.y) -> PSValues] :
          loc' = [fitted |-> TRUE, ps |-> ps, weights |-> NoValue]
    /\ pc' = "weights"
    /\ UNCHANGED <<fn, args, ret>>

\* lines 86-89
PSWeights ==
    /\ fn = "fit_propensity_score" /\ pc = "weights"
    /\ LET ps == ClippedPS(loc.ps)
       IN  loc' = [fitted |-> TRUE, ps |-> ps, weights |-> StabilizedWeights(args.y, ps)]
    /\ pc' = "truncate"
    /\ UNCHANGED <<fn, args, ret>>

\* lines 91-93
PSInvalidQuantiles ==
    /\ fn = "fit_propensity_score" /\ pc = "truncate"
    /\ ~ValidQuantiles(args.weight_truncation)
    /\ ret' = [kind |-> "raise", exc |-> "ValueError"]
    /\ pc' = "done"
    /\ UNCHANGED <<fn, args, loc>>

\* lines 91-98
PSTruncate ==
    /\ fn = "fit_propensity_score" /\ pc = "truncate"
    /\ ValidQuantiles(args.weight_truncation)
    /\ ret' = [kind |-> "ok", ps |-> loc.ps,
               weights |-> TruncatedWeights(loc.weights, args.weight_truncation)]
    /\ pc' = "done"
    /\ UNCHANGED <<fn, args, loc>>

NextPS ==
    LoadConfig \/ PSNoCovariates \/ PSFitOneClass \/ PSFit \/ PSWeights
        \/ PSInvalidQuantiles \/ PSTruncate

SpecPS == InitPS /\ [][NextPS]_vars

PSReturned == fn = "fit_propensity_score" /\ pc = "done" /\ ret.kind = "ok"

\* C14: truncation quantiles violating 0 <= lo < hi <= 1 are rejected before
\* any computation: fit_propensity_score has neither fitted the model nor
\* computed weights when it raises, and load_config raises instead of
\* returning a configuration that holds such a pair.
C14_InvalidQuantilesRejectedFirst ==
    /\ (fn = "fit_propensity_score" /\ ~ValidQuantiles(args.weight_truncation))
          => (~loc.fitted /\ loc.weights = NoValue /\ (pc = "done" => ret.kind = "raise"))
    /\ (fn = "load_config" /\ ~ValidQuantiles(args.weight_truncation) /\ pc = "done")
          => ret.kind = "raise"

\* the truncation bounds, recomputed from the untruncated weights kept in loc
LoBound == NpQuantile(loc.weights, args.weight_truncation[1], 100)
HiBound == NpQuantile(loc.weights, args.weight_truncation[2], 100)

\* C15: every weight returned by fit_propensity_score is finite, >= 0 and
\* between the lo-quantile and the hi-quantile of the untruncated stabilized
\* weights, for any predicted probabilities and any treated prevalence.
C15_WeightsFiniteWithinQuantiles ==
    PSReturned =>
        \A i \in 1..Len(ret.weights) :
            /\ IsFinite(ret.weights[i])
            /\ FGe(ret.weights[i], Num(0))
            /\ FLe(LoBound, ret.weights[i])
            /\ FLe(ret.weights[i], HiBound)

\* a returned cohort whose predicted probabilities reached 0 and 1 before the
\* clip and in which the truncation changed a weight; and a returned
\* single-class cohort
C15_Witness ==
    /\ PSReturned
    /\ \/ /\ \E i \in 1..Len(ret.ps) : ret.ps[i] = ps_clip[1]
          /\ \E i \in 1..Len(ret.ps) : ret.ps[i] = ps_clip[2]
          /\ \E i \in 1..Len(ret.weights) : ret.weights[i] # loc.weights[i]
          /\ FLt(LoBound, HiBound)
       \/ OneClass(args.y) /\ Len(args.y) > 1

\* C16: truncation to the quantiles (0.0, 1.0) leaves every weight unchanged;
\* the bounds are the minimum and the maximum of the vector.
C16_FullRangeTruncationIdentity ==
    (PSReturned /\ args.weight_truncation = <<0, 100>>) =>
        /\ ret.weights = loc.weights
        /\ \A i \in 1..Len(loc.weights) :
              FLe(LoBound, loc.weights[i]) /\ FLe(loc.weights[i], HiBound)
        /\ \E i \in 1..Len(loc.weights) : LoBound = loc.weights[i]
        /\ \E i \in 1..Len(loc.weights) : HiBound = loc.weights[i]

\* a returned cohort truncated to (0.0, 1.0) whose weights are not all equal
C16_Witness ==
    /\ PSReturned /\ args.weight_truncation = <<0, 100>>
    /\ Len(ret.weights) = MaxRowsPS
    /\ \A i, j \in 1..Len(ret.weights) : i # j => ret.weights[i] # ret.weights[j]

(***************************************************************************)
(* Kish effective sample size: effects.py _kish_effective_n called on a    *)
(* weight vector, and the per-arm ESS of _weight_summary (study.py; the    *)
(* copy in scripts/run_primary_analysis.py is the same code).              *)
(***************************************************************************)
MaxRowsKish == 3
MaxWeightKish == 2

KishRows == [t : {0, 1}, w : 0..MaxWeightKish]

InitKish ==
    /\ \/ /\ fn = "_kish_effective_n"
          /\ args \in {[w |-> d] : d \in TablesUpTo({r \in KishRows : r.t = 1}, MaxRowsKish)}
       \/ /\ fn = "_weight_summary"
          /\ args \in {[df |-> d] : d \in TablesUpTo(KishRows, MaxRowsKish)}
    /\ loc = NoValue
    /\ pc = "start"
    /\ ret = NoValue

\* effects.py lines 21-25
KishZero ==
    /\ fn = "_kish_effective_n" /\ pc = "start"
    /\ FEq(NpSum(col_w2(args.w)), Num(0))
    /\ ret' = _kish_effective_n(args.w)
    /\ pc' = "done"
    /\ UNCHANGED <<fn, args, loc>>

\* effects.py lines 21-26
KishRatio ==
    /\ fn = "_kish_effective_n" /\ pc = "start"
    /\ ~FEq(NpSum(col_w2(args.w)), Num(0))
    /\ ret' = _kish_effective_n(args.w)
    /\ pc' = "done"
    /\ UNCHANGED <<fn, args, loc>>

\* study.py lines 118-129 on an empty table: np.min of a zero-size array
SummaryEmpty ==
    /\ fn = "_weight_summary" /\ pc = "start"
    /\ args.df = <<>>
    /\ ret' = [kind |-> "raise", exc |-> "ValueError"]
    /\ pc' = "done"
    /\ UNCHANGED <<fn, args, loc>>

\* study.py lines 118-129: the counts and weight quantiles; the model keeps
\* the counts
SummaryHead ==
    /\ fn = "_weight_summary" /\ pc = "start"
    /\ args.df # <<>>
    /\ loc' = [n |-> Len(args.df), n_treated |-> Len(Arm(args.df, 1)),
               n_control |-> Len(Arm(args.df, 0)), ess |-> <<>>]
    /\ pc' = "ess"
    /\ UNCHANGED <<fn, args, ret>>

\* the arm of the next pass of the loop of line 130: treated, then control
SummaryArm == Arm(args.df, IF loc.ess = <<>> THEN 1 ELSE 0)

\* study.py lines 130-133: one pass, a division of two Python floats
SummaryEss ==
    /\ fn = "_weight_summary" /\ pc = "ess"
    /\ Len(loc.ess) < 2
    /\ ~PyDivRaises(Num(1), NpSum(col_w2(SummaryArm)))
    /\ LET s1 == NpSum(col_w(SummaryArm))
       IN  loc' = [loc EXCEPT !.ess = Append(loc.ess,
                                  PyDiv(FMul(s1, s1), NpSum(col_w2(SummaryArm))))]
    /\ UNCHANGED <<fn, args, pc, ret>>

\* study.py line 132 with a zero sum of squares
SummaryEssZeroDivision ==
    /\ fn = "_weight_summary" /\ pc = "ess"
    /\ Len(loc.ess) < 2
    /\ PyDivRaises(Num(1), NpSum(col_w2(SummaryArm)))
    /\ ret' = [kind |-> "raise", exc |-> "ZeroDivisionError"]
    /\ pc' = "done"
    /\ UNCHANGED <<fn, args, loc>>

\* study.py line 134
SummaryReturn ==
    /\ fn = "_weight_summary" /\ pc = "ess"
    /\ Len(loc.ess) = 2
    /\ ret' = [kind |-> "ok", n |-> loc.n, n_treated |-> loc.n_treated,
               n_control |-> loc.n_control,
               ess_treated |-> loc.ess[1], ess_control |-> loc.ess[2]]
    /\ pc' = "done"
    /\ UNCHANGED <<fn, args, loc>>

NextKish ==
    KishZero \/ KishRatio \/ SummaryEmpty \/ SummaryHead \/ SummaryEss
        \/ SummaryEssZeroDivision \/ SummaryReturn

SpecKish == InitKish /\ [][NextKish]_vars

KishDone == fn = "_kish_effective_n" /\ pc = "done"
SummaryDone == fn = "_weight_summary" /\ pc = "done"
AllEqualW(rows) == \A i, j \in 1..Len(rows) : rows[i].w = rows[j].w
AllZeroW(rows) == \A i \in 1..Len(rows) : rows[i].w = 0

\* C17 as stated: the Kish effective sample size is <= len(w), with equality
\* if and only if all weights are equal.
C17_KishEqualityIffEqual ==
    KishDone =>
        /\ FLe(ret, Num(Len(args.w)))
        /\ (ret = Num(Len(args.w))) <=> AllEqualW(args.w)

\* C17: the Kish effective sample size is <= len(w); an all-zero vector gives
\* 0, and for a vector with a non-zero weight equality holds if and only if
\* all weights are equal.
C17_KishBound ==
    KishDone =>
        /\ FLe(ret, Num(Len(args.w)))
        /\ AllZeroW(args.w) => ret = Num(0)
        /\ ~AllZeroW(args.w) => ((ret = Num(Len(args.w))) <=> AllEqualW(args.w))

\* a full-length vector of equal weights above 1 reaching len(w)
C17_Witness ==
    /\ KishDone /\ Len(args.w) = MaxRowsKish
    /\ AllEqualW(args.w) /\ args.w[1].w = MaxWeightKish
    /\ ret = Num(Len(args.w))

\* C18: every Kish computation yields 0 for an all-zero or empty weight
\* vector without raising: _kish_effective_n, and each arm of the weight
\* summary of a non-empty table.
C18_KishZeroWithoutRaising ==
    /\ (KishDone /\ AllZeroW(args.w)) => ret = Num(0)
    /\ (SummaryDone /\ args.df # <<>>) =>
          /\ AllZeroW(Arm(args.df, 1)) => (ret.kind = "ok" /\ ret.ess_treated = Num(0))
          /\ AllZeroW(Arm(args.df, 0)) => (ret.kind = "ok" /\ ret.ess_control = Num(0))

(***************************************************************************)
(* balance.py: standardized_mean_difference.                               *)
(*                                                                         *)
(* The claim about this function is about a covariate that is constant in  *)
(* each arm, where the outcome is decided by float64 rounding, so the      *)
(* model carries the rounding of the one inexact value it uses.  Covariate *)
(* values are 0.1 and 1.0, in tenths.  The float64 sum of n copies of 0.1  *)
(* divided by n is 0.1 + MeanUlps[n] units in the last place; 1.0 and its  *)
(* sums are exact.  A value is a + e * ulp with a rational and e a small   *)
(* integer, and a variance is a + e2 * ulp^2; one ulp is far below every   *)
(* rational of the model.  Weights are 0 or 1, which adds no rounding.     *)
(***************************************************************************)
MaxRowsSMD == 4

\* (sum of n copies of 0.1) / n - 0.1, in ulps of 0.1, for n = 1..7
MeanUlps == <<0, 0, 1, 0, 0, -1, -1>>

SMDRows == [x : {1, 10}, t : {0, 1}, w : {0, 1}]

\* lines 26-27 and 34-37: the subjects of an arm that enter its sums
SMDArm(a) ==
    SelectSeq(args.rows, LAMBDA r : r.t = a /\ (args.weighted => r.w > 0))

AllTenth(arm) == \A i \in 1..Len(arm) : arm[i].x = 1
SumX(arm) == SumInts([i \in 1..Len(arm) |-> arm[i].x])
SumXX(arm) == SumInts([i \in 1..Len(arm) |-> arm[i].x * arm[i].x])

\* lines 28-29, and _weighted_mean (lines 11-12)
SMDMean(arm) ==
    IF arm = <<>> THEN [a |-> NaN, e |-> 0]
    ELSE [a |-> Rat(SumX(arm), 10 * Len(arm)),
          e |-> IF AllTenth(arm) THEN MeanUlps[Len(arm)] ELSE 0]

\* lines 30-31, and _weighted_var (lines 15-17): the mean of the squared
\* deviations from the computed mean
SMDVar(arm) ==
    IF arm = <<>> THEN [a |-> NaN, e2 |-> 0]
    ELSE [a |-> Rat(Len(arm) * SumXX(arm) - SumX(arm) * SumX(arm), 100 * Len(arm) * Len(arm)),
          e2 |-> SMDMean(arm).e * SMDMean(arm).e]

\* line 43, squared: (v1 + v0) / 2
PooledSquared(v1, v0) ==
    [a |-> NpDiv(FAdd(v1.a, v0.a), Num(2)), e2 |-> v1.e2 + v0.e2]

\* line 44: pooled == 0
PooledIsZero(p2) == FEq(p2.a, Num(0)) /\ p2.e2 = 0

\* line 46: (m1 - m0) / pooled, kept as its order of magnitude, its sign and,
\* where it is an ordinary number, its square
SMDRatioValue(m1, m0, p2) ==
    LET da == FSub(m1.a, m0.a)
        de == m1.e - m0.e
    IN  IF IsNaN(da) \/ IsNaN(p2.a) THEN [order |-> "nan", sign |-> 0, square |-> NaN]
        ELSE IF FGt(p2.a, Num(0))
        THEN [order |-> IF da.n = 0 THEN "zero" ELSE "finite",
              sign |-> Sgn(da), square |-> NpDiv(FMul(da, da), p2.a)]
        ELSE IF da.n # 0
        THEN [order |-> "huge", sign |-> Sgn(da), square |-> PosInf]
        ELSE [order |-> IF de = 0 THEN "zero" ELSE "finite",
              sign |-> IF de > 0 THEN 1 ELSE IF de < 0 THEN -1 ELSE 0,
              square |-> Rat(2 * de * de, p2.e2)]

InitSMD ==
    /\ fn = "standardized_mean_difference"
    /\ args \in {[rows |-> d, weighted |-> FALSE] :
                    d \in TablesUpTo({r \in SMDRows : r.w = 1}, MaxRowsSMD)}
            \cup {[rows |-> d, weighted |-> TRUE] : d \in TablesUpTo(SMDRows, MaxRowsSMD)}
    /\ loc = NoValue
    /\ pc = "start"
    /\ ret = NoValue

\* lines 23-43: the arm means and variances, unweighted or weighted, and the
\* pooled standard deviation
SMDMoments ==
    /\ fn = "standardized_mean_difference" /\ pc = "start"
    /\ loc' = [m1 |-> SMDMean(SMDArm(1)), m0 |-> SMDMean(SMDArm(0)),
               pooled2 |-> PooledSquared(SMDVar(SMDArm(1)), SMDVar(SMDArm(0)))]
    /\ pc' = "pooled"
    /\ UNCHANGED <<fn, args, ret>>

\* lines 44-45
SMDZero ==
    /\ fn = "standardized_mean_difference" /\ pc = "pooled"
    /\ PooledIsZero(loc.pooled2)
    /\ ret' = [order |-> "zero", sign |-> 0, square |-> Num(0)]
    /\ pc' = "done"
    /\ UNCHANGED <<fn, args, loc>>

\* line 46
SMDRatio ==
    /\ fn = "standardized_mean_difference" /\ pc = "pooled"
    /\ ~PooledIsZero(loc.pooled2)
    /\ ret' = SMDRatioValue(loc.m1, loc.m0, loc.pooled2)
    /\ pc' = "done"
    /\ UNCHANGED <<fn, args, loc>>

NextSMD == SMDMoments \/ SMDZero \/ SMDRatio

SpecSMD == InitSMD /\ [][NextSMD]_vars

SMDDone == fn = "standardized_mean_difference" /\ pc = "done"

\* the covariate has pooled standard deviation 0: each arm has a subject
\* entering its sums, and these subjects share one value within the arm
ConstantInArms ==
    \A a \in {0, 1} :
        /\ SMDArm(a) # <<>>
        /\ \A i, j \in 1..Len(SMDArm(a)) : SMDArm(a)[i].x = SMDArm(a)[j].x

\* C19: standardized_mean_difference returns exactly 0.0 whenever the pooled
\* standard deviation of the covariate is 0, unweighted or weighted, whatever
\* the difference of the arm means.
C19_ZeroPooledSDGivesZero ==
    (SMDDone /\ ConstantInArms) => (ret.order = "zero" /\ ret.square = Num(0))

(***************************************************************************)
(* The choice of the estimation path for one outcome: the loop body of     *)
(* run_study (study.py 264-369) and main of scripts/run_primary_analysis   *)
(* (171-252).  The estimators are modelled above; here a call is recorded  *)
(* by name, and fit_weighted_cox may return or raise.                      *)
(***************************************************************************)
MaxRowsPath == 3

\* a time_col of None is carried as the string "None"; the cells of a time
\* column: a number, a missing cell, a text that is not
\* a number, and a text that spells a number
Cells == {"number", "missing", "text", "digits"}

ToNumericKeep(cell) == IF cell = "missing" THEN "nan" ELSE "number"

\* pd.to_numeric(..., errors="coerce") on one cell
ToNumeric(cell) == IF cell \in {"number", "digits"} THEN "number" ELSE "nan"

\* .notna().any()
NotNaAny(cells) == \E i \in 1..Len(cells) : ToNumeric(cells[i]) # "nan"

InitPath ==
    /\ \/ /\ fn = "run_study"
          /\ args \in [time_col : {"None", "time_days"}, in_columns : BOOLEAN,
                       cells : UNION {[1..n -> Cells] : n \in 0..MaxRowsPath},
                       event : {"absent", "all_missing", "usable"}, required : BOOLEAN]
       \/ /\ fn = "main"
          /\ args \in [time_col : {"time_days"}, in_columns : BOOLEAN,
                       cells : UNION {[1..n -> Cells] : n \in 0..MaxRowsPath},
                       event : {"absent", "all_missing", "usable"}, required : {FALSE}]
    /\ loc = NoValue
    /\ pc = "start"
    /\ ret = NoValue

\* study.py lines 265-278, optional outcome: recorded as skipped
StudySkipOutcome ==
    /\ fn = "run_study" /\ pc = "start"
    /\ args.event # "usable" /\ ~args.required
    /\ ret' = [kind |-> "skipped"]
    /\ pc' = "done"
    /\ UNCHANGED <<fn, args, loc>>

\* study.py lines 265-278, required outcome
StudyRequiredMissing ==
    /\ fn = "run_study" /\ pc = "start"
    /\ args.event # "usable" /\ args.required
    /\ ret' = [kind |-> "raise", exc |-> "ValueError"]
    /\ pc' = "done"
    /\ UNCHANGED <<fn, args, loc>>

\* study.py lines 279-295
StudyHasTime ==
    /\ fn = "run_study" /\ pc = "start"
    /\ args.event = "usable"
    /\ loc' = [has_time |-> IF args.time_col # "None" /\ args.in_columns
                            THEN NotNaAny(args.cells) ELSE FALSE,
               time_col |-> args.time_col, calls |-> <<>>]
    /\ pc' = "estimate"
    /\ UNCHANGED <<fn, args, ret>>

\* study.py lines 297-347
StudyTimeToEvent ==
    /\ fn = "run_study" /\ pc = "estimate"
    /\ loc.has_time /\ loc.time_col # "None"
    /\ \E fit \in {"returns", "raises"} :
          IF fit = "raises"
          THEN /\ loc' = [loc EXCEPT !.calls = <<"fit_weighted_cox">>]
               /\ ret' = [kind |-> "raise", exc |-> "ValueError"]
          ELSE /\ loc' = [loc EXCEPT !.calls = <<"fit_weighted_cox", "weighted_km_risk_at",
                                                "weighted_km_risk_at">>]
               /\ ret' = [kind |-> "analysed", labels |-> {"hr"}]
    /\ pc' = "done"
    /\ UNCHANGED <<fn, args>>

\* study.py lines 348-369
StudyBinary ==
    /\ fn = "run_study" /\ pc = "estimate"
    /\ ~(loc.has_time /\ loc.time_col # "None")
    /\ loc' = [loc EXCEPT !.calls = <<"weighted_binary_risks">>]
    /\ ret' = [kind |-> "analysed", labels |-> {"rr"}]
    /\ pc' = "done"
    /\ UNCHANGED <<fn, args>>

\* run_primary_analysis.py lines 171-172
MainMissingEvent ==
    /\ fn = "main" /\ pc = "start"
    /\ args.event = "absent"
    /\ ret' = [kind |-> "raise", exc |-> "SystemExit"]
    /\ pc' = "done"
    /\ UNCHANGED <<fn, args, loc>>

\* run_primary_analysis.py lines 173-202
MainHasTime ==
    /\ fn = "main" /\ pc = "start"
    /\ args.event # "absent"
    /\ LET time_col == IF args.in_columns THEN args.time_col ELSE "None"
       IN  loc' = [has_time |-> IF time_col # "None" THEN NotNaAny(args.cells) ELSE FALSE,
                   time_col |-> time_col, calls |-> <<>>]
    /\ pc' = "estimate"
    /\ UNCHANGED <<fn, args, ret>>

\* run_primary_analysis.py lines 204-236
MainTimeToEvent ==
    /\ fn = "main" /\ pc = "estimate"
    /\ loc.has_time /\ loc.time_col # "None"
    /\ \E fit \in {"returns", "raises"} :
          IF fit = "raises"
          THEN /\ loc' = [loc EXCEPT !.calls = <<"fit_weighted_cox">>]
               /\ ret' = [kind |-> "raise", exc |-> "ValueError"]
          ELSE /\ loc' = [loc EXCEPT !.calls = <<"fit_weighted_cox", "weighted_km_risk_at",
                                                "weighted_km_risk_at">>]
               /\ ret' = [kind |-> "analysed", labels |-> {"cox_hr", "risk_at_horizon"}]
    /\ pc' = "done"
    /\ UNCHANGED <<fn, args>>

\* run_primary_analysis.py lines 237-252
MainBinary ==
    /\ fn = "main" /\ pc = "estimate"
    /\ ~(loc.has_time /\ loc.time_col # "None")
    /\ loc' = [loc EXCEPT !.calls = <<"weighted_binary_risks">>]
    /\ ret' = [kind |-> "analysed", labels |-> {"risk_binary"}]
    /\ pc' = "done"
    /\ UNCHANGED <<fn, args>>

NextPath ==
    StudySkipOutcome \/ StudyRequiredMissing \/ StudyHasTime \/ StudyTimeToEvent
        \/ StudyBinary \/ MainMissingEvent \/ MainHasTime \/ MainTimeToEvent \/ MainBinary

SpecPath == InitPath /\ [][NextPath]_vars

\* an outcome for which an estimator was called
OutcomeAnalysed == fn \in {"run_study", "main"} /\ pc = "done" /\ loc # NoValue

\* the time column exists and holds a non-missing numeric value
TimeColumnUsable ==
    /\ args.time_col # "None" /\ args.in_columns
    /\ \E i \in 1..Len(args.cells) : args.cells[i] \in {"number", "digits"}

TimeToEventCalls ==
    {<<"fit_weighted_cox">>, <<"fit_weighted_cox", "weighted_km_risk_at", "weighted_km_risk_at">>}

\* C20: for each analysed outcome exactly one estimation path is taken: Cox
\* and KM (effect_type hr / key cox_hr) if and only if the time column exists
\* and has a non-missing numeric value, otherwise the binary risks
\* (effect_type rr / key risk_binary).
C20_OnePathByTimeColumn ==
    OutcomeAnalysed =>
        IF TimeColumnUsable
        THEN /\ loc.calls \in TimeToEventCalls
             /\ ret.kind = "analysed" =>
                   ret.labels \in {{"hr"}, {"cox_hr", "risk_at_horizon"}}
        ELSE /\ loc.calls = <<"weighted_binary_risks">>
             /\ ret.kind = "analysed" /\ ret.labels \in {{"rr"}, {"risk_binary"}}

\* a time-to-event outcome whose column also holds missing and text cells
C20_Witness ==
    /\ OutcomeAnalysed /\ TimeColumnUsable /\ ret.kind = "analysed"
    /\ loc.calls[1] = "fit_weighted_cox"
    /\ \E i \in 1..Len(args.cells) : args.cells[i] = "text"
    /\ \E i \in 1..Len(args.cells) : args.cells[i] = "missing"

(***************************************************************************)
(* The replicates of the bootstrap loop (effects.py 365-374) executed      *)
(* without synchronization: every replicate runs the statements of the     *)
(* loop body in order, and the statements of different replicates          *)
(* interleave freely.  The generator rng and the lists rd_s and rr_s are   *)
(* the objects the loop body of the code reads and writes.                 *)
(***************************************************************************)
\* lines 365-374 run one replicate after the other from the generator state
\* rng: the lists rd_s and rr_s after k replicates
RECURSIVE BootSequential(_, _, _, _)
BootSequential(resolved, horizon, rng, k) ==
    IF k = 0 THEN [rd_s |-> <<>>, rr_s |-> <<>>]
    ELSE LET b == BootReplicate(resolved, horizon, rng)
             rest == BootSequential(resolved, horizon, b.rng, k - 1)
         IN  [rd_s |-> b.rd \o rest.rd_s, rr_s |-> b.rr \o rest.rr_s]

InitPar ==
    /\ fn = "weighted_competing_risk_cif_rr_at"
    /\ args \in {[df |-> d, horizon_days |-> h, n_bootstrap |-> n, seed |-> s] :
                    d \in {t \in TablesUpTo(BootRows, MaxRowsBoot) :
                              Arm(t, 1) # <<>> /\ Arm(t, 0) # <<>>},
                    h \in TimesBoot, n \in 1..MaxBoot, s \in {0, 1}}
    /\ loc = NoValue
    /\ pc = "start"
    /\ ret = NoValue

\* lines 316-364: status resolution, the generator and the empty lists
ParEnter ==
    /\ fn = "weighted_competing_risk_cif_rr_at" /\ pc = "start"
    /\ LET work == SelectSeq(args.df, CRNotMissing)
       IN  loc' = [resolved |-> [i \in 1..Len(work) |->
                                    ResolveStatus(work[i], args.horizon_days)],
                   rng |-> BootGenerator(args.seed, 0),
                   rd_s |-> <<>>, rr_s |-> <<>>,
                   rep |-> [k \in 1..args.n_bootstrap |-> [at |-> "b1", b1 |-> <<>>, b0 |-> <<>>]]]
    /\ pc' = "replicates"
    /\ UNCHANGED <<fn, args, ret>>

\* line 366 in replicate k
ParDrawTreated(k) ==
    /\ fn = "weighted_competing_risk_cif_rr_at" /\ pc = "replicates"
    /\ loc.rep[k].at = "b1"
    /\ LET n1 == Len(Arm(loc.resolved, 1))
           b == RngIntegers(loc.rng, n1, n1)
       IN  loc' = [loc EXCEPT !.rng = b.state, !.rep[k].b1 = b.vals, !.rep[k].at = "b0"]
    /\ UNCHANGED <<fn, args, pc, ret>>

\* line 367 in replicate k
ParDrawControl(k) ==
    /\ fn = "weighted_competing_risk_cif_rr_at" /\ pc = "replicates"
    /\ loc.rep[k].at = "b0"
    /\ LET n0 == Len(Arm(loc.resolved, 0))
           b == RngIntegers(loc.rng, n0, n0)
       IN  loc' = [loc EXCEPT !.rng = b.state, !.rep[k].b0 = b.vals, !.rep[k].at = "cif"]
    /\ UNCHANGED <<fn, args, pc, ret>>

\* lines 368-374 in replicate k
ParAppend(k) ==
    /\ fn = "weighted_competing_risk_cif_rr_at" /\ pc = "replicates"
    /\ loc.rep[k].at = "cif"
    /\ LET arm1 == Arm(loc.resolved, 1)
           arm0 == Arm(loc.resolved, 0)
           bcif1 == _weighted_aj_cif_at([i \in 1..Len(arm1) |-> arm1[loc.rep[k].b1[i] + 1]],
                                        args.horizon_days)
           bcif0 == _weighted_aj_cif_at([i \in 1..Len(arm0) |-> arm0[loc.rep[k].b0[i] + 1]],
                                        args.horizon_days)
           both == IsFinite(bcif1) /\ IsFinite(bcif0)
       IN  loc' = [loc EXCEPT !.rep[k].at = "done",
                              !.rd_s = IF both THEN Append(@, FSub(bcif1, bcif0)) ELSE @,
                              !.rr_s = IF both THEN Append(@, RiskRatio(bcif1, bcif0)) ELSE @]
    /\ UNCHANGED <<fn, args, pc, ret>>

\* lines 375-388, once every replicate has finished
ParReturn ==
    /\ fn = "weighted_competing_risk_cif_rr_at" /\ pc = "replicates"
    /\ \A k \in 1..args.n_bootstrap : loc.rep[k].at = "done"
    /\ LET ci == BootIntervals(loc.rd_s, loc.rr_s)
       IN  ret' = [kind |-> "RiskEstimate", rd_ci95 |-> ci.rd_ci95, rr_ci95 |-> ci.rr_ci95]
    /\ pc' = "done"
    /\ UNCHANGED <<fn, args, loc>>

NextPar ==
    \/ ParEnter
    \/ \E k \in 1..MaxBoot :
          k <= args.n_bootstrap /\ (ParDrawTreated(k) \/ ParDrawControl(k) \/ ParAppend(k))
    \/ ParReturn

SpecPar == InitPar /\ [][NextPar]_vars

\* C21: the replicates executed in any order or interleaving give the same RD
\* and RR confidence bounds as the sequential run with the same seed.
C21_InterleavingSameBounds ==
    (fn = "weighted_competing_risk_cif_rr_at" /\ pc = "done") =>
        LET seq == BootSequential(loc.resolved, args.horizon_days,
                                  BootGenerator(args.seed, 0), args.n_bootstrap)
            ci == BootIntervals(seq.rd_s, seq.rr_s)
        IN  ret.rd_ci95 = ci.rd_ci95 /\ ret.rr_ci95 = ci.rr_ci95

(***************************************************************************)
(* Termination of the estimators: one call of fit_weighted_cox, of         *)
(* weighted_km_risk_at, of _weighted_aj_cif_at or of                       *)
(* weighted_competing_risk_cif_rr_at with bootstrap, run to its end.  The  *)
(* interpreter always executes the next statement of a running call, which *)
(* is the weak fairness of the step relation.                              *)
(***************************************************************************)
MaxRowsTerm == 2

InitTerm ==
    /\ \/ /\ fn = "fit_weighted_cox"
          /\ args \in {[df |-> d] : d \in {t \in TablesUpTo(CoxRows, MaxRowsCox) : Followed(t)}}
          /\ loc = NoValue
       \/ /\ fn = "weighted_km_risk_at"
          /\ args \in {[df |-> d, horizon_days |-> h] :
                          d \in TablesUpTo(KMRows, MaxRowsTerm), h \in Horizons}
          /\ loc = NoValue
       \/ /\ fn = "_weighted_aj_cif_at"
          /\ args \in {[rows |-> d, horizon_days |-> h] :
                          d \in TablesUpTo(AJRows, MaxRowsTerm), h \in TimesAJ}
          /\ loc = NoValue
       \/ /\ fn = "weighted_competing_risk_cif_rr_at"
          /\ args \in {[df |-> d, horizon_days |-> h, n_bootstrap |-> n, seed |-> 0] :
                          d \in TablesUpTo(BootRows, MaxRowsTerm), h \in TimesBoot,
                          n \in 1..MaxBoot}
          /\ loc = [call |-> 1, process |-> 0, first |-> NoValue]
    /\ pc = "start"
    /\ ret = NoValue

NextTerm ==
    \/ CoxNotBinary \/ CoxNoEvents \/ CoxAggregate
    \/ NewtonZeroDivision \/ NewtonContinue \/ NewtonBreak \/ NewtonExhausted \/ CoxReturn
    \/ KMEmpty \/ KMNoWeight \/ KMPrepare \/ KMLoopStep \/ KMLoopBreak \/ KMLoopEnd \/ KMReturn
    \/ AJNothing \/ AJPrepare \/ AJLoopStep \/ AJReturn
    \/ BootEnter \/ BootLoopStep \/ BootReturn

\* the frame is at a position the code leaves: each disjunct is the guard
\* under which the statement at that position executes
CanStep ==
    \/ /\ fn = "fit_weighted_cox"
       /\ \/ pc = "start"
          \/ pc = "newton" /\ loc.it < MaxIter /\ NewtonStep(loc.event_times, loc.beta) # {}
          \/ pc = "newton" /\ loc.it = MaxIter
          \/ pc = "after_loop"
    \/ /\ fn = "weighted_km_risk_at"
       /\ \/ pc = "start"
          \/ pc = "loop" /\ loc.i <= Len(loc.grouped)
          \/ pc = "loop" /\ loc.i > Len(loc.grouped)
          \/ pc = "return"
    \/ /\ fn = "_weighted_aj_cif_at"
       /\ pc \in {"start", "loop"}
    \/ /\ fn = "weighted_competing_risk_cif_rr_at"
       /\ \/ pc = "start" /\ args.n_bootstrap > 0
          \/ pc = "replicates" /\ BothArms /\ loc.k < args.n_bootstrap
          \/ pc = "replicates" /\ (IF BothArms THEN loc.k = args.n_bootstrap ELSE TRUE)

\* WF_vars(NextTerm) with the enabling condition of NextTerm written out as
\* CanStep: a call that can execute its next statement eventually does
SpecTerm == InitTerm /\ [][NextTerm]_vars /\ ([]<><<NextTerm>>_vars \/ <>[]~CanStep)

\* the passes made so far stay within the bound of each loop, and a
\* bootstrap that ran its loop made exactly n_bootstrap passes
LoopBounds ==
    /\ (fn = "fit_weighted_cox" /\ loc # NoValue) => loc.it <= MaxIter
    /\ (fn \in {"weighted_km_risk_at", "_weighted_aj_cif_at"} /\ loc # NoValue)
          => /\ loc.i - 1 <= Len(loc.grouped)
             /\ \A a \in 1..Len(loc.grouped) : \A b \in 1..Len(loc.grouped) :
                    a < b => loc.grouped[a].time < loc.grouped[b].time
    /\ (fn = "weighted_competing_risk_cif_rr_at" /\ pc \in {"replicates", "done"})
          => /\ loc.k <= args.n_bootstrap
             /\ (pc = "done" /\ BothArms) => loc.k = args.n_bootstrap

\* a loop makes no pass after its stopping condition: no Newton pass after
\* an update below the tolerance, no KM or AJ pass for a time beyond the
\* horizon
LoopStops ==
    /\ (fn = "fit_weighted_cox" /\ pc = "after_loop") => UNCHANGED loc
    /\ (fn \in {"weighted_km_risk_at", "_weighted_aj_cif_at"} /\ pc = "loop"
           /\ loc' # loc)
          => /\ loc.i <= Len(loc.grouped)
             /\ loc.grouped[loc.i].time <= args.horizon_days
             /\ loc'.i = loc.i + 1

\* C23: every estimator call terminates: the Newton-Raphson loop makes at
\* most 60 passes and none after an update below 1e-10, the KM and AJ loops
\* make at most one pass per distinct time and none for a time beyond the
\* horizon, and the bootstrap loop makes exactly n_bootstrap passes.
C23_EstimatorsTerminate ==
    /\ <>(pc = "done")
    /\ [](pc # "done" => CanStep)
    /\ [](LoopBounds)
    /\ [][LoopStops]_vars

\* a Cox call that returned after all 60 passes
C23_Witness ==
    /\ fn = "fit_weighted_cox" /\ pc = "done" /\ ret.kind = "CoxEstimate"
    /\ loc.it = MaxIter /\ ~loc.broke

(***************************************************************************)
(* The risk sets of fit_weighted_cox (effects.py 100-144): the table is    *)
(* aggregated and the call either raises or enters the Newton-Raphson      *)
(* loop; tables of any composition, the loop itself is not run.            *)
(***************************************************************************)
MaxRowsAgg == 4

\* three durations per arm and event indicator, events of weight 1 or 2 and
\* censored subjects of weight 1, and the three special rows of CoxRows
AggRows == {r \in [time : {1, 2, 3}, event : {0, 1}, w : {1, 2}, x2 : {0, 2}] :
                r.event = 0 => r.w = 1}
               \cup {[time |-> 1, event |-> 1, w |-> 1, x2 |-> 1],
                     [time |-> 1, event |-> 1, w |-> 1, x2 |-> 4],
                     [time |-> 1, event |-> NA, w |-> 1, x2 |-> 2]}

InitAgg ==
    /\ fn = "fit_weighted_cox"
    /\ args \in {[df |-> d] : d \in TablesUpTo(AggRows, MaxRowsAgg)}
    /\ loc = NoValue
    /\ pc = "start"
    /\ ret = NoValue

NextAgg == CoxNotBinary \/ CoxNoEvents \/ CoxAggregate

SpecAgg == InitAgg /\ [][NextAgg]_vars

\* the subjects of one arm that satisfy a condition on time and event, as a
\* set of row numbers, and their total weight
Subjects(work, x, t, tied) ==
    {i \in 1..Len(work) :
        /\ work[i].x = x
        /\ IF tied THEN work[i].time = t /\ work[i].event = 1 ELSE work[i].time >= t}

RECURSIVE TotalWeightOf(_, _)
TotalWeightOf(work, rows) ==
    IF rows = {} THEN 0
    ELSE LET i == CHOOSE r \in rows : TRUE
         IN  work[i].w + TotalWeightOf(work, rows \ {i})

Aggregated == fn = "fit_weighted_cox" /\ pc = "newton"

\* C24: for every distinct time t that enters the partial likelihood, R1(t)
\* and R0(t) are the total weights of the treated and control subjects with
\* time >= t, d1(t) and d0(t) the total weights of those with an event at
\* exactly t, and a distinct time enters exactly when d1(t) + d0(t) > 0.
C24_RiskSetsAndEventWeights ==
    Aggregated =>
        LET work == loc.df0
            et == loc.event_times
        IN  /\ \A j \in 1..Len(et) :
                  /\ et[j].R1 = TotalWeightOf(work, Subjects(work, 1, et[j].time, FALSE))
                  /\ et[j].R0 = TotalWeightOf(work, Subjects(work, 0, et[j].time, FALSE))
                  /\ et[j].d1 = TotalWeightOf(work, Subjects(work, 1, et[j].time, TRUE))
                  /\ et[j].d0 = TotalWeightOf(work, Subjects(work, 0, et[j].time, TRUE))
            /\ \A i \in 1..Len(work) :
                  (\E j \in 1..Len(et) : et[j].time = work[i].time)
                      <=> (TotalWeightOf(work, Subjects(work, 1, work[i].time, TRUE))
                           + TotalWeightOf(work, Subjects(work, 0, work[i].time, TRUE)) > 0)
            /\ \A j \in 1..Len(et) : \A k \in 1..Len(et) : et[j].time = et[k].time => j = k

\* an event time with a tied censored subject, a later subject in the risk
\* set and an earlier subject outside it
C24_Witness ==
    /\ Aggregated
    /\ \E j \in 1..Len(loc.event_times) : \E a, b, c \in 1..Len(loc.df0) :
           LET t == loc.event_times[j].time
           IN  /\ loc.df0[a].time = t /\ loc.df0[a].event = 0 /\ loc.df0[a].w > 0
               /\ loc.df0[b].time > t /\ loc.df0[b].w > 0
               /\ loc.df0[c].time < t /\ loc.df0[c].w > 0
               /\ loc.df0[a].x = loc.df0[c].x

(***************************************************************************)
(* scripts/run_sensitivity_suite.py, main: the summary TSV over a sequence *)
(* of runs.  A run computes the rows of the sensitivities it was asked     *)
(* for and writes the summary; an existing readable summary is read back   *)
(* and its rows of other sensitivities are kept.                           *)
(*                                                                         *)
(* A row is [sensitivity_id, cohort, n, ver]: ver stands for the estimates *)
(* of the run that computed the row, n is the cell of the column n.  The   *)
(* file holds text; to_csv and read_csv are modelled on the column n,      *)
(* whose type depends on whether the column has a missing cell.            *)
(***************************************************************************)
MaxRuns == 3

\* lines 485-534: registered sensitivity IDs, and one that is not registered
sensitivity_defs == {"S1_LANDMARK_12H", "S2_LANDMARK_6H", "G1_SUBGROUP_SUP_DRIVER"}
SuiteIDs == sensitivity_defs \cup {"S9_NOT_REGISTERED"}

\* the order of the sort keys sensitivity_id and cohort
SortRank ==
    [G1_SUBGROUP_SUP_DRIVER |-> 1, S1_LANDMARK_12H |-> 2, S2_LANDMARK_6H |-> 3,
     eicu |-> 1, mimic |-> 2, pooled |-> 3]

\* _tidy_combined, lines 313-370: what one sensitivity contributes: no row
\* (every ratio missing), the row of one cohort, or that row and the pooled
\* row, whose n is None
TidyChoices == {<<>>, <<"mimic">>, <<"mimic", "pooled">>}

TidyRows(sid, cohorts, run) ==
    [i \in 1..Len(cohorts) |->
        [sensitivity_id |-> sid, cohort |-> cohorts[i],
         n |-> IF cohorts[i] = "pooled" THEN [k |-> "None", v |-> 0]
               ELSE [k |-> "int", v |-> 7],
         ver |-> run]]

\* lines 542-748: the rows of all sensitivities of the suite, in the order
\* of the suite
RECURSIVE AllRows(_, _, _)
AllRows(order, computed, run) ==
    IF order = <<>> THEN <<>>
    ELSE TidyRows(Head(order), computed[Head(order)], run)
             \o AllRows(Tail(order), computed, run)

\* a column n in memory: int64 when no cell is missing, float64 otherwise
AsFloat(cell) == IF cell.k = "int" THEN [k |-> "float", v |-> cell.v]
                 ELSE IF cell.k \in {"None", "empty"} THEN [k |-> "nan", v |-> 0]
                 ELSE cell

\* pd.DataFrame(all_rows), line 751: None makes the column float64
FrameOf(rows) ==
    IF \E i \in 1..Len(rows) : rows[i].n.k = "None"
    THEN [i \in 1..Len(rows) |-> [rows[i] EXCEPT !.n = AsFloat(rows[i].n)]]
    ELSE rows

\* to_csv, line 786: an int64 cell as digits, a float64 cell with a decimal
\* point, a missing cell as the empty string
ToCsv(rows) ==
    [i \in 1..Len(rows) |->
        [rows[i] EXCEPT !.n = IF rows[i].n.k = "int" THEN [k |-> "digits", v |-> rows[i].n.v]
                              ELSE IF rows[i].n.k = "float"
                                   THEN [k |-> "decimal", v |-> rows[i].n.v]
                                   ELSE [k |-> "empty", v |-> 0]]]

\* pd.read_csv, line 774: a column of digits only is int64, any other
\* column of numbers is float64 with NaN for the empty cells
ReadCsv(text) ==
    IF \A i \in 1..Len(text) : text[i].n.k = "digits"
    THEN [i \in 1..Len(text) |-> [text[i] EXCEPT !.n = [k |-> "int", v |-> text[i].n.v]]]
    ELSE [i \in 1..Len(text) |->
             [text[i] EXCEPT !.n = IF text[i].n.k = "empty" THEN [k |-> "nan", v |-> 0]
                                   ELSE [k |-> "float", v |-> text[i].n.v]]]

ConcatNewOnly(a, b) == b

\* pd.concat, line 777: columns of different types become float64
Concat(a, b) ==
    LET ab == a \o b
    IN  IF \E i \in 1..Len(ab) : ab[i].n.k # "int"
        THEN [i \in 1..Len(ab) |-> [ab[i] EXCEPT !.n = AsFloat(ab[i].n)]]
        ELSE ab

\* sort_values by sensitivity_id and cohort (lines 769 and 782-785), stable
RowKey(r) == 10 * SortRank[r.sensitivity_id] + SortRank[r.cohort]

RECURSIVE SortRows(_)
SortRows(rows) ==
    IF rows = <<>> THEN <<>>
    ELSE LET m == CHOOSE i \in 1..Len(rows) :
                      /\ \A j \in 1..Len(rows) : RowKey(rows[i]) <= RowKey(rows[j])
                      /\ \A j \in 1..(i - 1) : RowKey(rows[j]) > RowKey(rows[i])
         IN  <<rows[m]>> \o SortRows([j \in 1..(Len(rows) - 1) |->
                                         IF j < m THEN rows[j] ELSE rows[j + 1]])

\* the suite in the order given on the command line
SuiteOrders ==
    {q \in UNION {[1..m -> SuiteIDs] : m \in 1..2} :
        \A i, j \in 1..Len(q) : q[i] = q[j] => i = j}

\* the summary file is absent, unreadable or a table of text rows
NoFile == [kind |-> "absent", rows |-> <<>>]
BadFile == [kind |-> "unreadable", rows |-> <<>>]

InitSuite ==
    /\ fn = "run_sensitivity_suite.main"
    /\ args = NoValue
    /\ loc \in {[file |-> f, prev |-> f, runs |-> 0] : f \in {NoFile, BadFile}}
    /\ pc = "idle"
    /\ ret = NoValue

\* the script is started with --sensitivities; what the analyses of this
\* run will produce is fixed here (nothing for a sensitivity it does not run)
SuiteStart ==
    /\ fn = "run_sensitivity_suite.main" /\ pc = "idle"
    /\ loc.runs < MaxRuns
    /\ \E order \in SuiteOrders :
       \E computed \in [sensitivity_defs -> TidyChoices] :
           /\ \A sid \in sensitivity_defs :
                  (\A i \in 1..Len(order) : order[i] # sid) => computed[sid] = <<>>
           /\ args' = [suite |-> order, computed |-> computed]
    /\ loc' = [loc EXCEPT !.prev = loc.file, !.runs = loc.runs + 1]
    /\ pc' = "main"
    /\ ret' = NoValue
    /\ UNCHANGED fn

Unknown == {i \in 1..Len(args.suite) : args.suite[i] \notin sensitivity_defs}

\* lines 536-538: an ID that is not registered ends the run before any
\* analysis
SuiteUnknown ==
    /\ fn = "run_sensitivity_suite.main" /\ pc = "main"
    /\ Unknown # {}
    /\ ret' = [kind |-> "raise", exc |-> "SystemExit"]
    /\ pc' = "idle"
    /\ UNCHANGED <<fn, args, loc>>

\* lines 751-768: with no row at all the column selection raises KeyError
SuiteNoRows ==
    /\ fn = "run_sensitivity_suite.main" /\ pc = "main"
    /\ Unknown = {}
    /\ AllRows(args.suite, args.computed, loc.runs) = <<>>
    /\ ret' = [kind |-> "raise", exc |-> "KeyError"]
    /\ pc' = "idle"
    /\ UNCHANGED <<fn, args, loc>>

\* lines 751-787 with no summary, or one that cannot be read: the new rows
\* alone are written
SuiteOverwrite ==
    /\ fn = "run_sensitivity_suite.main" /\ pc = "main"
    /\ Unknown = {}
    /\ AllRows(args.suite, args.computed, loc.runs) # <<>>
    /\ loc.file.kind # "table"
    /\ LET out_df == SortRows(FrameOf(AllRows(args.suite, args.computed, loc.runs)))
       IN  loc' = [loc EXCEPT !.file = [kind |-> "table", rows |-> ToCsv(SortRows(out_df))]]
    /\ ret' = [kind |-> "written", exc |-> "None"]
    /\ pc' = "idle"
    /\ UNCHANGED <<fn, args>>

\* lines 751-787 with a readable summary: its rows of the sensitivities
\* that were not run are kept, the new rows are appended
SuiteMerge ==
    /\ fn = "run_sensitivity_suite.main" /\ pc = "main"
    /\ Unknown = {}
    /\ AllRows(args.suite, args.computed, loc.runs) # <<>>
    /\ loc.file.kind = "table"
    /\ LET out_df == SortRows(FrameOf(AllRows(args.suite, args.computed, loc.runs)))
           prev == SelectSeq(ReadCsv(loc.file.rows),
                             LAMBDA r : \A i \in 1..Len(args.suite) :
                                            r.sensitivity_id # args.suite[i])
       IN  loc' = [loc EXCEPT !.file = [kind |-> "table",
                                        rows |-> ToCsv(SortRows(Concat(prev, out_df)))]]
    /\ ret' = [kind |-> "written", exc |-> "None"]
    /\ pc' = "idle"
    /\ UNCHANGED <<fn, args>>

\* between two runs the file may be damaged or removed by something else
SuiteFileLost ==
    /\ fn = "run_sensitivity_suite.main" /\ pc = "idle"
    /\ loc.file.kind = "table" /\ loc.runs < MaxRuns
    /\ \E f \in {NoFile, BadFile} : loc' = [loc EXCEPT !.file = f]
    /\ ret' = NoValue
    /\ UNCHANGED <<fn, args, pc>>

NextSuite ==
    SuiteStart \/ SuiteUnknown \/ SuiteNoRows \/ SuiteOverwrite \/ SuiteMerge \/ SuiteFileLost

SpecSuite == InitSuite /\ [][NextSuite]_vars

\* the content of a row of the file: its cells as values, an integer and
\* the float of the same value being one value
RowValue(r) ==
    [sensitivity_id |-> r.sensitivity_id, cohort |-> r.cohort, ver |-> r.ver,
     n |-> IF r.n.k \in {"digits", "decimal", "int", "float"} THEN r.n.v ELSE NA]

\* how often a row of this content occurs in a table
CountRows(rows, val) == Cardinality({i \in 1..Len(rows) : RowValue(rows[i]) = val})

InSuite(sid) == \E i \in 1..Len(args.suite) : args.suite[i] = sid

SummaryWritten == pc = "idle" /\ ret # NoValue /\ ret.kind = "written"

MaxOutcomesStudy == 2

\* the cells of an event column: the indicator 1, the indicator 0, a missing
\* cell and a text that is not a number
EventCells == {"one", "zero", "missing", "text"}

\* the event columns the input table may hold (two subjects); "e3" is a
\* column the table does not have
EventColumns == {<<"one", "zero">>, <<"zero", "zero">>, <<"missing", "missing">>,
                 <<"text", "missing">>, <<"missing", "one">>}

\* the time column "t1" of the input table
TimeColumns == {<<"number", "missing">>, <<"text", "missing">>}

\* pd.to_numeric(..., errors="coerce") on one cell of an event column
EventToNumeric(cell) == IF cell \in {"one", "zero"} THEN cell ELSE "nan"

\* event.notna().any()
EventNotNaAny(col) == \E r \in 1..Len(col) : EventToNumeric(col[r]) # "nan"

\* event.fillna(0).astype(int)
EventFillInt(col) ==
    [r \in 1..Len(col) |-> IF EventToNumeric(col[r]) = "nan" THEN "zero"
                           ELSE EventToNumeric(col[r])]

\* the outcomes of a configuration; an outcome's name is its position in
\* config.outcomes
OutcomeConfigs == [event_col : {"e1", "e2", "e3"}, time_col : {"None", "t1"},
                   required : BOOLEAN]

InitStudy ==
    /\ fn = "run_study.outcomes"
    /\ \E n \in 0..MaxOutcomesStudy :
          args \in [outcomes : [1..n -> OutcomeConfigs],
                    df : [e1 : EventColumns, e2 : EventColumns, t1 : TimeColumns]]
    /\ loc = [i |-> 1, df |-> args.df, effect_rows |-> <<>>, skipped |-> <<>>]
    /\ pc = "loop"
    /\ ret = NoValue

\* study.py lines 265 and 272-273: the event column is not in the table, or
\* holds no numeric value after conversion
EventColumnMissing(df, outcome) ==
    IF outcome.event_col \notin DOMAIN df THEN TRUE
    ELSE ~EventNotNaAny(df[outcome.event_col])

\* study.py lines 266 and 274
SkipReason(df, outcome) ==
    IF outcome.event_col \notin DOMAIN df THEN "missing_event_col"
    ELSE "all_missing_event_col"

\* the optional outcome is passed over without a record
OutcomeSkippedUnrecorded ==
    /\ fn = "run_study.outcomes" /\ pc = "loop"
    /\ loc.i <= Len(args.outcomes)
    /\ EventColumnMissing(loc.df, args.outcomes[loc.i])
    /\ ~args.outcomes[loc.i].required
    /\ loc' = [loc EXCEPT !.i = loc.i + 1]
    /\ UNCHANGED <<fn, args, pc, ret>>

\* study.py lines 265-278, optional outcome: skipped.append and continue
OutcomeSkipped ==
    /\ fn = "run_study.outcomes" /\ pc = "loop"
    /\ loc.i <= Len(args.outcomes)
    /\ EventColumnMissing(loc.df, args.outcomes[loc.i])
    /\ ~args.outcomes[loc.i].required
    /\ loc' = [loc EXCEPT !.i = loc.i + 1,
                          !.skipped = Append(loc.skipped,
                              [outcome |-> loc.i,
                               reason |-> SkipReason(loc.df, args.outcomes[loc.i]),
                               event_col |-> args.outcomes[loc.i].event_col])]
    /\ UNCHANGED <<fn, args, pc, ret>>

\* study.py lines 265-278, required outcome: raise ValueError
OutcomeRequiredMissing ==
    /\ fn = "run_study.outcomes" /\ pc = "loop"
    /\ loc.i <= Len(args.outcomes)
    /\ EventColumnMissing(loc.df, args.outcomes[loc.i])
    /\ args.outcomes[loc.i].required
    /\ ret' = [kind |-> "raise", exc |-> "ValueError", at |-> "event_col"]
    /\ pc' = "done"
    /\ UNCHANGED <<fn, args, loc>>

\* study.py lines 281-287
OutcomeHasTime(df, outcome) ==
    IF outcome.time_col # "None" /\ outcome.time_col \in DOMAIN df
    THEN NotNaAny(df[outcome.time_col]) ELSE FALSE

\* study.py lines 279 and 286: the converted columns are written back
OutcomeFrame(df, outcome) ==
    LET filled == [df EXCEPT ![outcome.event_col] = EventFillInt(df[outcome.event_col])]
    IN  IF OutcomeHasTime(df, outcome)
        THEN [filled EXCEPT ![outcome.time_col] =
                  [r \in 1..Len(df[outcome.time_col]) |-> ToNumeric(df[outcome.time_col][r])]]
        ELSE filled

\* study.py lines 279-347 and 369: the time-to-event branch; fit_weighted_cox
\* raises ValueError when the outcome has no event (effects.py line 139) and
\* may fail for other tables too
OutcomeTimeToEvent ==
    /\ fn = "run_study.outcomes" /\ pc = "loop"
    /\ loc.i <= Len(args.outcomes)
    /\ ~EventColumnMissing(loc.df, args.outcomes[loc.i])
    /\ OutcomeHasTime(loc.df, args.outcomes[loc.i])
    /\ LET outcome == args.outcomes[loc.i]
           df == OutcomeFrame(loc.df, outcome)
           events == \E r \in 1..Len(df[outcome.event_col]) :
                         df[outcome.event_col][r] = "one"
       IN  \E fit \in (IF events THEN {"returns", "raises"} ELSE {"raises"}) :
              IF fit = "raises"
              THEN /\ loc' = [loc EXCEPT !.df = df]
                   /\ ret' = [kind |-> "raise", exc |-> "ValueError",
                              at |-> "fit_weighted_cox"]
                   /\ pc' = "done"
              ELSE /\ loc' = [loc EXCEPT !.df = df, !.i = loc.i + 1,
                                  !.effect_rows = Append(loc.effect_rows,
                                      [outcome |-> loc.i, effect_type |-> "hr",
                                       event_col |-> outcome.event_col,
                                       time_col |-> outcome.time_col])]
                   /\ UNCHANGED <<pc, ret>>
    /\ UNCHANGED <<fn, args>>

\* study.py lines 279-296 and 348-369: the binary-risk branch
OutcomeBinary ==
    /\ fn = "run_study.outcomes" /\ pc = "loop"
    /\ loc.i <= Len(args.outcomes)
    /\ ~EventColumnMissing(loc.df, args.outcomes[loc.i])
    /\ ~OutcomeHasTime(loc.df, args.outcomes[loc.i])
    /\ LET outcome == args.outcomes[loc.i]
       IN  loc' = [loc EXCEPT !.df = OutcomeFrame(loc.df, outcome), !.i = loc.i + 1,
                       !.effect_rows = Append(loc.effect_rows,
                           [outcome |-> loc.i, effect_type |-> "rr",
                            event_col |-> outcome.event_col, time_col |-> "None"])]
    /\ UNCHANGED <<fn, args, pc, ret>>

\* study.py lines 371-372 and 414-416: the effect table and the audit entry
StudyReturn ==
    /\ fn = "run_study.outcomes" /\ pc = "loop"
    /\ loc.i > Len(args.outcomes)
    /\ ret' = [kind |-> "returned", effects |-> loc.effect_rows,
               skipped_outcomes |-> loc.skipped]
    /\ pc' = "done"
    /\ UNCHANGED <<fn, args, loc>>

NextStudy ==
    \/ OutcomeSkipped
    \/ OutcomeRequiredMissing
    \/ OutcomeTimeToEvent
    \/ OutcomeBinary
    \/ StudyReturn

SpecStudy == InitStudy /\ [][NextStudy]_vars

\* the outcomes before position i whose event column was missing, resp.
\* usable, in the input table, in configuration order
RECURSIVE ConfiguredWhere(_, _, _)
ConfiguredWhere(outcomes, i, missing) ==
    IF i = 0 THEN <<>>
    ELSE LET before == ConfiguredWhere(outcomes, i - 1, missing)
         IN  IF EventColumnMissing(args.df, outcomes[i]) = missing
             THEN Append(before, i) ELSE before

OutcomeNames(rows) == [r \in 1..Len(rows) |-> rows[r].outcome]

\* what holds of the rows and the skip records after the outcomes before i
HandledBefore(i, effect_rows, skipped) ==
    /\ OutcomeNames(effect_rows) = ConfiguredWhere(args.outcomes, i - 1, FALSE)
    /\ OutcomeNames(skipped) = ConfiguredWhere(args.outcomes, i - 1, TRUE)
    /\ Len(effect_rows) + Len(skipped) = i - 1
    /\ \A r \in 1..Len(skipped) :
          /\ ~args.outcomes[skipped[r].outcome].required
          /\ skipped[r].reason \in {"missing_event_col", "all_missing_event_col"}
          /\ skipped[r].reason = "missing_event_col"
                <=> skipped[r].event_col \notin DOMAIN args.df

====
